---- MODULE Spec2Model ----
(***************************************************************************)
(* Voice capture session of the Solace client SDK and its applications.    *)
(*                                                                         *)
(* recordAndDetectVoice is an async generator: an audio callback (the      *)
(* producer) segments sample chunks into frames, classifies each frame and *)
(* hands speech frames to the generator loop through frameQueue /          *)
(* resolveNext; an application's for-await loop (the consumer) pulls the   *)
(* frames.  A behaviour follows one capture session from the Start click.  *)
(*                                                                         *)
(* JavaScript runs every task to completion and drains the microtask queue *)
(* before the next task: the steps that continue a resolved promise        *)
(* (GenYield, the loop bodies) are microtasks, and no task (audio          *)
(* callback, click, timer, permission answer) runs while one is pending.   *)
(***************************************************************************)
EXTENDS Integers, Sequences, FiniteSets, TLC

\* ---------------------------------------------------------------- bounds
\* audio callbacks that may still arrive once MaxFrameCount frames completed
MaxFrameCount == 4
\* frameQueue length the model explores
MaxQueue == 2
\* frames past maxFrames a long session is followed for
MaxExtraFrames == 2
\* times the talker falls silent and resumes in a draining session
MaxPauses == 1

\* ------------------------------------------------------ program constants
DefaultSampleRate == 16000
DefaultFrameDuration == 30
JsProcessorBufferSize == 512
minFrames == 5
maxFrames == 100
speechTimeout == 20
PollLimit == 20

NoFrame == -1
Undefined == -2

Sdks == {"taskB", "clientJs", "demoSdk", "micVad"}
Apps == {"loop", "collect", "legacy", "demo"}

\* the SDK each application imports
SdkOf(a) ==
  CASE a = "collect" -> {"clientJs"}
    [] a = "loop" -> {"clientJs"}
    [] a = "legacy" -> {"taskB", "demoSdk"}
    [] a = "demo" -> {"demoSdk", "micVad"}

\* the sensitivity each application starts with
SensitivityOf(a) ==
  CASE a = "loop" -> 2
    [] a = "collect" -> 1
    [] a = "legacy" -> 1
    [] a = "demo" -> 2

\* the vadConfig each application passes; the demo's is set by its selects
ConfigsOf(a) ==
  IF a = "demo"
    THEN {<<DefaultSampleRate, DefaultFrameDuration>>, <<8000, 10>>}
    ELSE {<<DefaultSampleRate, DefaultFrameDuration>>}

VARIABLES
  app,            \* which application drives the session
  sdk,            \* which recordAndDetectVoice it imports
  sampleRate, frameDuration, sensitivity,   \* vadConfig
  gen,            \* position of the generator body
  retQueued,      \* a return() request waits behind the running next()
  mic, graph, ctx,             \* stream tracks, source/processor nodes, AudioContext
  bufferIndex, frameCount, frameQueue, isDone, resolveNext,
  ready,          \* value the awaited promise was resolved with
  consumer,       \* position of the application's for-await loop
  current,        \* frame the loop body is working on
  frames,         \* framesRef / vadFramesRef / voiceFramesRef
  recording, recordingRef, iteratorRef, status,
  recordingSeen,  \* the value of `recording` the running handleStart closed over
  appFrameCount, stopRequested, lastSpeechFrame,   \* locals of the frame loop
  vizMic,         \* the application's own visualisation stream
  stoppedRef, stopPc, waitCount,   \* handleStopAndUpload
  stopAt,         \* history: frames completed when Stop was clicked, -1 before
  samplesIn,      \* history: samples delivered to audio callbacks
  produced,       \* history: speech frames in the order they were classified
  yielded,        \* history: frames in the order the generator yielded them
  cbLeft,         \* samples the suspended async audio callback has still to read
  cbError,        \* history: frame the scorer first threw on, -1 before
  cbNested,       \* samples left to a callback that started during another's await
  call,           \* the latest call of an encryption or transfer function
  encLog,         \* history: the encryptBlob calls, in order
  keysGenerated,  \* generateKey calls so far
  rngDraws,       \* getRandomValues calls so far
  callerKeys,     \* the keys the caller of the SDK holds
  stored,         \* localStorage item solace_conversation_history
  conversationHistory,   \* React state of the collect application
  chats,          \* handleChat calls awaiting the chat completion
  completed,      \* history: the user messages of the completed exchanges
  appBlobKey,     \* React state blobKey of the demo: the key of the uploaded blob
  putResponse     \* history: status of the response to the demo's PUT, 0 if none

sdkVars == <<gen, retQueued, mic, graph, ctx, bufferIndex, frameCount,
             frameQueue, isDone, resolveNext, ready>>
appVars == <<consumer, current, frames, recording, recordingRef, iteratorRef, status,
             recordingSeen, appFrameCount, stopRequested, lastSpeechFrame, vizMic,
             stoppedRef, stopPc, waitCount>>
histVars == <<stopAt, samplesIn, produced, yielded>>
cbVars == <<cbLeft, cbError, cbNested>>
cfgVars == <<app, sdk, sampleRate, frameDuration, sensitivity>>
\* state of the SDK outside the capture session, introduced below
apiVars == <<call, encLog, keysGenerated, rngDraws, callerKeys, stored>>
chatVars == <<conversationHistory, chats, completed>>
uploadVars == <<appBlobKey, putResponse>>
libVars == <<cbVars, apiVars, chatVars, uploadVars>>
vars == <<cfgVars, libVars, sdkVars, appVars, histVars>>

\* ------------------------------------------------------------- segmenter
\* a frame size that leaves out the division by 1000
FrameSizeUnscaled(sr, fd) == sr * fd

\* (vadConfig.sampleRate * vadConfig.frameDuration) / 1000
FrameSize(sr, fd) == (sr * fd) \div 1000
frameSize == FrameSize(sampleRate, frameDuration)

RECURSIVE Pow2Ceil(_)
\* Math.pow(2, Math.ceil(Math.log2(n)))
Pow2Ceil(n) == IF n <= 1 THEN 1 ELSE 2 * Pow2Ceil((n + 1) \div 2)

\* size of the chunks the ScriptProcessorNode delivers
ProcessorBufferSize(s, fs) ==
  CASE s = "taskB" -> fs
    [] s = "clientJs" -> JsProcessorBufferSize
    [] OTHER -> Pow2Ceil(fs)

\* number of iterations of the fill loop for a chunk of len samples
LoopBound(s, fs, len) ==
  IF s \in {"taskB", "clientJs"} THEN fs ELSE len

\* a producer that appends every speech frame to the queue
OnFrameEnqueue(st, voice) ==
  LET k == st.k + 1
      hasVoice == voice[k]
  IN [bi |-> 0,
      fc |-> st.fc + 1,
      q |-> IF hasVoice THEN Append(st.q, st.fc) ELSE st.q,
      rn |-> st.rn,
      rdy |-> st.rdy,
      prod |-> IF hasVoice THEN Append(st.prod, st.fc) ELSE st.prod,
      k |-> k]

\* state of the fill loop: [bi, fc, q, rn, rdy, prod, k]
\*   k counts the frames completed in this callback, voice[k] is the
\*   classifier's verdict on the k-th of them
OnFrame(st, voice) ==
  LET k == st.k + 1
      hasVoice == voice[k]
      handed == hasVoice /\ st.rn
      queued == hasVoice /\ ~st.rn
  IN [bi |-> 0,
      fc |-> st.fc + 1,
      q |-> IF queued THEN Append(st.q, st.fc) ELSE st.q,
      rn |-> IF handed THEN FALSE ELSE st.rn,
      rdy |-> IF handed THEN st.fc ELSE st.rdy,
      prod |-> IF hasVoice THEN Append(st.prod, st.fc) ELSE st.prod,
      k |-> k]

RECURSIVE FillBuffer(_, _, _, _)
\* the fill loop, n iterations left: every iteration stores one sample and
\* advances bufferIndex; the iterations up to the next full buffer are taken
\* in one stride
FillBuffer(n, fs, st, voice) ==
  IF st.bi + n < fs
    THEN [st EXCEPT !.bi = st.bi + n]
    ELSE FillBuffer(n - (fs - st.bi), fs, OnFrame([st EXCEPT !.bi = fs], voice), voice)

\* frames a callback of n loop iterations completes (sizes the verdict input)
Completes(bi, n, fs) == (bi + n) \div fs

Verdicts(k) == [1..k -> BOOLEAN]

\* ------------------------------------------------------------ generator
HasSentinel(s) == s \in {"micVad", "clientTs"}

\* the locals of a generator that has not started and the state of an
\* application before its Start click
SessionIdle ==
  /\ gen = "none" /\ retQueued = FALSE
  /\ mic = "none" /\ graph = "none" /\ ctx = "none"
  /\ bufferIndex = 0 /\ frameCount = 0 /\ frameQueue = <<>>
  /\ isDone = FALSE /\ resolveNext = FALSE /\ ready = NoFrame
  /\ consumer = "none" /\ current = NoFrame /\ frames = <<>>
  /\ recording = FALSE /\ recordingRef = FALSE /\ iteratorRef = FALSE
  /\ status = "Ready"
  /\ recordingSeen = FALSE
  /\ appFrameCount = 0 /\ stopRequested = FALSE /\ lastSpeechFrame = 0
  /\ vizMic = "none"
  /\ stoppedRef = FALSE /\ stopPc = "idle" /\ waitCount = 0
  /\ stopAt = -1 /\ samplesIn = 0 /\ produced = <<>> /\ yielded = <<>>

\* no audio callback is suspended
CallbackIdle == cbLeft = -1 /\ cbError = -1 /\ cbNested = -1

\* no encryption or transfer function was called
ApiIdle ==
  /\ call = [fn |-> "none"]
  /\ encLog = <<>> /\ keysGenerated = 0 /\ rngDraws = 0
  /\ callerKeys = {}
  /\ stored = [present |-> FALSE]

\* no exchange with the chatbot was started
ChatIdle == conversationHistory = <<>> /\ chats = <<>> /\ completed = <<>>

\* nothing of the SDK outside the session is in use
\* the demo has uploaded nothing
NoBlobKey == ""
UploadIdle == appBlobKey = NoBlobKey /\ putResponse = 0

LibIdle == CallbackIdle /\ ApiIdle /\ ChatIdle /\ UploadIdle

Init ==
  /\ app \in Apps
  /\ sdk \in SdkOf(app)
  /\ \E c \in ConfigsOf(app) : sampleRate = c[1] /\ frameDuration = c[2]
  /\ sensitivity = SensitivityOf(app)
  /\ SessionIdle
  /\ LibIdle

\* a continuation of a resolved promise is queued: no task may run
MicrotaskPending ==
  \/ gen = "frameReady"
  \/ consumer \in {"body", "threw"}
  \/ stopPc = "returned"

\* the finally block of the generator
Cleanup ==
  /\ isDone' = TRUE
  /\ resolveNext' = IF HasSentinel(sdk) THEN FALSE ELSE resolveNext
  /\ mic' = "stopped"
  /\ graph' = "disconnected"
  /\ ctx' = "closed"

\* iterator.return(): a generator suspended at yield runs its finally block,
\* a completed one answers at once
GenReturn ==
  /\ IF gen = "atYield"
       THEN Cleanup /\ gen' = "done"
       ELSE UNCHANGED <<isDone, resolveNext, mic, graph, ctx, gen>>
  /\ UNCHANGED <<frameQueue, ready, retQueued, bufferIndex, frameCount>>

\* a queue that would hand out its newest frame first
Pop(q) == [frame |-> q[Len(q)], rest |-> SubSeq(q, 1, Len(q) - 1)]

\* a queue read that leaves the frame in the queue
Peek(q) == [frame |-> Head(q), rest |-> q]

\* frameQueue.shift()
Shift(q) == [frame |-> Head(q), rest |-> Tail(q)]

\* iterator.next() on a generator suspended at yield: the loop test and the
\* promise executor of the next iteration
GenNext ==
  /\ IF gen = "atYield"
       THEN IF isDone
              THEN Cleanup /\ gen' = "done" /\ UNCHANGED <<frameQueue, ready>>
              ELSE /\ UNCHANGED <<isDone, mic, graph, ctx>>
                   /\ IF Len(frameQueue) > 0
                        THEN /\ gen' = "frameReady"
                             /\ ready' = Shift(frameQueue).frame
                             /\ frameQueue' = Shift(frameQueue).rest
                             /\ UNCHANGED resolveNext
                        ELSE /\ gen' = "awaitFrame"
                             /\ resolveNext' = TRUE
                             /\ UNCHANGED <<frameQueue, ready>>
       ELSE UNCHANGED <<isDone, resolveNext, mic, graph, ctx, gen, frameQueue, ready>>
  /\ UNCHANGED <<retQueued, bufferIndex, frameCount>>

\* getUserMedia resolves; the graph is built and the loop starts waiting
MicGranted ==
  /\ gen = "awaitMic" /\ ~MicrotaskPending
  /\ mic' = "live" /\ ctx' = "open" /\ graph' = "connected"
  /\ gen' = "awaitFrame" /\ resolveNext' = TRUE
  /\ UNCHANGED <<retQueued, bufferIndex, frameCount, frameQueue, isDone, ready>>
  /\ UNCHANGED <<cfgVars, libVars, appVars, histVars>>

\* getUserMedia rejects: the generator throws before acquiring anything
MicDenied ==
  /\ gen = "awaitMic" /\ ~MicrotaskPending
  /\ gen' = "done" /\ retQueued' = FALSE
  /\ consumer' = IF consumer = "waiting" THEN "threw" ELSE consumer
  /\ UNCHANGED <<mic, graph, ctx, bufferIndex, frameCount, frameQueue, isDone,
                 resolveNext, ready>>
  /\ stopPc' = IF retQueued /\ stopPc = "awaitReturn" THEN "returned" ELSE stopPc
  /\ UNCHANGED <<current, frames, recording, recordingRef, iteratorRef, status,
                 recordingSeen, appFrameCount, stopRequested, lastSpeechFrame,
                 vizMic, stoppedRef, waitCount>>
  /\ UNCHANGED <<cfgVars, libVars, histVars>>

\* processor.onaudioprocess with a chunk of len samples
AudioCallback(len, voice) ==
  /\ sdk # "micVad"
  /\ graph = "connected" /\ ~MicrotaskPending
  /\ IF isDone
       THEN UNCHANGED <<sdkVars, histVars>>
       ELSE LET n == LoopBound(sdk, frameSize, len)
                st0 == [bi |-> bufferIndex, fc |-> frameCount, q |-> frameQueue,
                        rn |-> resolveNext, rdy |-> ready, prod |-> produced, k |-> 0]
                st == FillBuffer(n, frameSize, st0, voice)
            IN /\ voice \in Verdicts(Completes(bufferIndex, n, frameSize))
               /\ Len(st.q) <= MaxQueue
               /\ bufferIndex' = st.bi
               /\ frameCount' = st.fc
               /\ frameQueue' = st.q
               /\ resolveNext' = st.rn
               /\ ready' = st.rdy
               /\ produced' = st.prod
               /\ gen' = IF resolveNext /\ ~st.rn THEN "frameReady" ELSE gen
               /\ samplesIn' = samplesIn + len
               /\ UNCHANGED <<retQueued, mic, graph, ctx, isDone, yielded, stopAt>>
  /\ UNCHANGED <<cfgVars, libVars, appVars>>

\* MicVAD onSpeechEnd: one speech segment per call
OnSpeechEnd ==
  /\ sdk = "micVad"
  /\ graph = "connected" /\ ~MicrotaskPending
  /\ LET q1 == Append(frameQueue, frameCount)
     IN /\ IF resolveNext
             THEN /\ ready' = Head(q1)
                  /\ frameQueue' = Tail(q1)
                  /\ resolveNext' = FALSE
                  /\ gen' = "frameReady"
             ELSE /\ frameQueue' = q1
                  /\ Len(q1) <= MaxQueue
                  /\ UNCHANGED <<ready, resolveNext, gen>>
  /\ produced' = Append(produced, frameCount)
  /\ frameCount' = frameCount + 1
  /\ UNCHANGED <<retQueued, mic, graph, ctx, bufferIndex, isDone, samplesIn, yielded, stopAt>>
  /\ UNCHANGED <<cfgVars, libVars, appVars>>

\* the awaited promise resolved: the generator yields the frame to the pending
\* next(), then serves a return() request that queued up behind it
GenYield ==
  /\ gen = "frameReady"
  /\ IF ready = Undefined
       THEN /\ Cleanup /\ gen' = "done"
            /\ consumer' = "ended"
            /\ UNCHANGED <<current, yielded>>
       ELSE /\ yielded' = Append(yielded, ready)
            /\ current' = ready
            /\ consumer' = "body"
            /\ IF retQueued
                 THEN Cleanup /\ gen' = "done"
                 ELSE /\ gen' = "atYield"
                      /\ UNCHANGED <<isDone, resolveNext, mic, graph, ctx>>
  /\ ready' = NoFrame
  /\ retQueued' = FALSE
  /\ stopPc' = IF retQueued /\ stopPc = "awaitReturn" THEN "returned" ELSE stopPc
  /\ UNCHANGED <<bufferIndex, frameCount, frameQueue>>
  /\ UNCHANGED <<frames, recording, recordingRef, iteratorRef, status,
                 recordingSeen, appFrameCount, stopRequested, lastSpeechFrame,
                 vizMic, stoppedRef, waitCount>>
  /\ UNCHANGED <<cfgVars, libVars, samplesIn, produced, stopAt>>

\* ------------------------------------------- task-c client, collectFrames
loopLocals == <<recordingSeen, appFrameCount, stopRequested, lastSpeechFrame, vizMic>>
demoLocals == <<stoppedRef, stopPc, waitCount>>

HandleStartCollect ==
  /\ app = "collect" /\ gen = "none" /\ ~recording /\ ~MicrotaskPending
  /\ status' = "Listening"
  /\ frames' = <<>>
  /\ recording' = TRUE /\ recordingRef' = TRUE
  /\ iteratorRef' = TRUE
  /\ gen' = "awaitMic"
  /\ consumer' = "waiting"
  /\ UNCHANGED <<retQueued, mic, graph, ctx, bufferIndex, frameCount, frameQueue,
                 isDone, resolveNext, ready>>
  /\ UNCHANGED <<current, loopLocals, demoLocals, cfgVars, libVars, histVars>>

CollectBody ==
  /\ app = "collect" /\ consumer = "body"
  /\ IF ~recordingRef
       THEN /\ GenReturn
            /\ consumer' = "stopped"
            /\ UNCHANGED frames
       ELSE /\ frames' = Append(frames, current)
            /\ GenNext
            /\ consumer' = IF gen = "atYield" THEN "waiting" ELSE "ended"
  /\ current' = NoFrame
  /\ UNCHANGED <<recording, recordingRef, iteratorRef, status, loopLocals, demoLocals>>
  /\ UNCHANGED <<cfgVars, libVars, histVars>>

CollectCatch ==
  /\ app = "collect" /\ consumer = "threw"
  /\ status' = IF recordingRef THEN "Error" ELSE status
  /\ consumer' = "caught"
  /\ UNCHANGED <<current, frames, recording, recordingRef, iteratorRef,
                 loopLocals, demoLocals>>
  /\ UNCHANGED <<cfgVars, libVars, sdkVars, histVars>>

HandleStopCollect ==
  /\ app = "collect" /\ recording /\ ~MicrotaskPending
  /\ recording' = FALSE /\ recordingRef' = FALSE
  /\ iteratorRef' = FALSE
  /\ status' = IF Len(frames) = 0 THEN "NoSpeech" ELSE "Transcribing"
  /\ UNCHANGED <<consumer, current, frames, loopLocals, demoLocals>>
  /\ stopAt' = frameCount
  /\ UNCHANGED <<cfgVars, libVars, sdkVars, samplesIn, produced, yielded>>

\* --------------------------------------------------- task-c/src/App.tsx
HandleStartLegacy ==
  /\ app = "legacy" /\ gen = "none" /\ ~recording /\ ~MicrotaskPending
  /\ status' = "Listening"
  /\ frames' = <<>>
  /\ recordingSeen' = recording
  /\ recording' = TRUE
  /\ iteratorRef' = TRUE
  /\ gen' = "awaitMic"
  /\ consumer' = "waiting"
  /\ UNCHANGED <<retQueued, mic, graph, ctx, bufferIndex, frameCount, frameQueue,
                 isDone, resolveNext, ready>>
  /\ UNCHANGED <<current, recordingRef, appFrameCount, stopRequested,
                 lastSpeechFrame, vizMic, demoLocals, cfgVars, libVars, histVars>>

LegacyBody ==
  /\ app = "legacy" /\ consumer = "body"
  /\ IF ~recordingSeen
       THEN /\ GenReturn
            /\ consumer' = "stopped"
            /\ UNCHANGED frames
       ELSE /\ frames' = Append(frames, current)
            /\ GenNext
            /\ consumer' = IF gen = "atYield" THEN "waiting" ELSE "ended"
  /\ current' = NoFrame
  /\ UNCHANGED <<recording, recordingRef, iteratorRef, status, loopLocals, demoLocals>>
  /\ UNCHANGED <<cfgVars, libVars, histVars>>

LegacyCatch ==
  /\ app = "legacy" /\ consumer = "threw"
  /\ status' = "Error"
  /\ recording' = FALSE
  /\ consumer' = "caught"
  /\ UNCHANGED <<current, frames, recordingRef, iteratorRef, loopLocals, demoLocals>>
  /\ UNCHANGED <<cfgVars, libVars, sdkVars, histVars>>

HandleStopLegacy ==
  /\ app = "legacy" /\ recording /\ ~MicrotaskPending
  /\ recording' = FALSE
  /\ status' = "Transcribing"
  /\ UNCHANGED <<consumer, current, frames, recordingRef, iteratorRef,
                 loopLocals, demoLocals>>
  /\ stopAt' = frameCount
  /\ UNCHANGED <<cfgVars, libVars, sdkVars, samplesIn, produced, yielded>>

\* --------------------------------------- task-c client, handleStart loop
HandleStartLoop ==
  /\ app = "loop" /\ gen = "none" /\ consumer = "none" /\ ~recording
  /\ ~MicrotaskPending
  /\ status' = "Listening"
  /\ frames' = <<>>
  /\ recordingSeen' = recording
  /\ recording' = TRUE
  /\ consumer' = "awaitViz"
  /\ UNCHANGED <<current, recordingRef, iteratorRef, appFrameCount, stopRequested,
                 lastSpeechFrame, vizMic, demoLocals>>
  /\ UNCHANGED <<cfgVars, libVars, sdkVars, histVars>>

\* the application's getUserMedia resolves; for-await issues the first next()
VizGranted ==
  /\ app = "loop" /\ consumer = "awaitViz" /\ ~MicrotaskPending
  /\ vizMic' = "live"
  /\ appFrameCount' = 0 /\ stopRequested' = FALSE /\ lastSpeechFrame' = 0
  /\ gen' = "awaitMic"
  /\ consumer' = "waiting"
  /\ UNCHANGED <<retQueued, mic, graph, ctx, bufferIndex, frameCount, frameQueue,
                 isDone, resolveNext, ready>>
  /\ UNCHANGED <<current, frames, recording, recordingRef, iteratorRef, status,
                 recordingSeen, demoLocals, cfgVars, libVars, histVars>>

VizDenied ==
  /\ app = "loop" /\ consumer = "awaitViz" /\ ~MicrotaskPending
  /\ status' = "Error"
  /\ recording' = FALSE
  /\ consumer' = "caught"
  /\ UNCHANGED <<current, frames, recordingRef, iteratorRef, loopLocals, demoLocals>>
  /\ UNCHANGED <<cfgVars, libVars, sdkVars, histVars>>

\* loop body up to the 10 ms delay
LoopBody ==
  /\ app = "loop" /\ consumer = "body"
  /\ frames' = Append(frames, current)
  /\ appFrameCount' = appFrameCount + 1
  /\ lastSpeechFrame' = appFrameCount + 1
  /\ current' = NoFrame
  /\ consumer' = "delay"
  /\ UNCHANGED <<recording, recordingRef, iteratorRef, status, recordingSeen,
                 stopRequested, vizMic, demoLocals>>
  /\ UNCHANGED <<cfgVars, libVars, sdkVars, histVars>>

StopCondition(sr, fc, last) ==
  sr /\ fc >= minFrames /\ (fc - last) >= speechTimeout

\* the delay elapsed: stop flag, stop conditions, then break or next()
LoopDelayDone ==
  /\ app = "loop" /\ consumer = "delay" /\ ~MicrotaskPending
  /\ LET sr == stopRequested \/ ~recordingSeen
     IN /\ stopRequested' = sr
        /\ IF StopCondition(sr, appFrameCount, lastSpeechFrame)
                \/ appFrameCount >= maxFrames
             THEN /\ GenReturn
                  /\ vizMic' = "stopped"
                  /\ consumer' = IF StopCondition(sr, appFrameCount, lastSpeechFrame)
                                   THEN "stopped" ELSE "maxed"
             ELSE /\ GenNext
                  /\ consumer' = IF gen = "atYield" THEN "waiting" ELSE "ended"
                  /\ vizMic' = IF gen = "atYield" THEN vizMic ELSE "stopped"
  /\ UNCHANGED <<current, frames, recording, recordingRef, iteratorRef, status,
                 recordingSeen, appFrameCount, lastSpeechFrame, demoLocals>>
  /\ UNCHANGED <<cfgVars, libVars, histVars>>

\* catch block: the visualisation context is closed, its stream is not stopped
LoopCatch ==
  /\ app = "loop" /\ consumer = "threw"
  /\ status' = "Error"
  /\ recording' = FALSE
  /\ consumer' = "caught"
  /\ UNCHANGED <<current, frames, recordingRef, iteratorRef, loopLocals, demoLocals>>
  /\ UNCHANGED <<cfgVars, libVars, sdkVars, histVars>>

HandleStopLoop ==
  /\ app = "loop" /\ recording /\ ~MicrotaskPending
  /\ recording' = FALSE
  /\ status' = "Transcribing"
  /\ UNCHANGED <<consumer, current, frames, recordingRef, iteratorRef,
                 loopLocals, demoLocals>>
  /\ stopAt' = frameCount
  /\ UNCHANGED <<cfgVars, libVars, sdkVars, samplesIn, produced, yielded>>

\* ------------------------------------------------------- task-B demo app
Finished(c) == c \in {"stopped", "maxed", "ended", "caught"}

HandleStartRecording ==
  /\ app = "demo" /\ gen = "none" /\ ~recording /\ stopPc = "idle"
  /\ ~MicrotaskPending
  /\ frames' = <<>>
  /\ recordingRef' = TRUE
  /\ stoppedRef' = FALSE
  /\ iteratorRef' = TRUE
  /\ recording' = TRUE
  /\ status' = "Listening"
  /\ gen' = "awaitMic"
  /\ consumer' = "waiting"
  /\ UNCHANGED <<retQueued, mic, graph, ctx, bufferIndex, frameCount, frameQueue,
                 isDone, resolveNext, ready>>
  /\ UNCHANGED <<current, loopLocals, stopPc, waitCount, cfgVars, libVars, histVars>>

\* processVoiceFrames loop body
DemoBody ==
  /\ app = "demo" /\ consumer = "body"
  /\ IF stoppedRef \/ ~recordingRef
       THEN /\ GenReturn
            /\ consumer' = "stopped"
            /\ UNCHANGED frames
       ELSE /\ frames' = Append(frames, current)
            /\ GenNext
            /\ consumer' = IF gen = "atYield" THEN "waiting" ELSE "ended"
  /\ current' = NoFrame
  /\ UNCHANGED <<recording, recordingRef, iteratorRef, status, loopLocals, demoLocals>>
  /\ UNCHANGED <<cfgVars, libVars, histVars>>

DemoCatch ==
  /\ app = "demo" /\ consumer = "threw"
  /\ status' = "Error"
  /\ consumer' = "caught"
  /\ UNCHANGED <<current, frames, recording, recordingRef, iteratorRef,
                 loopLocals, demoLocals>>
  /\ UNCHANGED <<cfgVars, libVars, sdkVars, histVars>>

\* Stop & Upload click: flags, then iterator.return() raced against 2000 ms.
\* A generator that is running (awaiting inside next()) queues the request.
HandleStopAndUpload ==
  /\ app = "demo" /\ recording /\ stopPc = "idle" /\ ~MicrotaskPending
  /\ status' = "Stopping"
  /\ recordingRef' = FALSE
  /\ recording' = FALSE
  /\ stoppedRef' = TRUE
  /\ IF ~iteratorRef
       THEN stopPc' = "awaitProcess" /\ UNCHANGED sdkVars
       ELSE IF gen \in {"awaitMic", "awaitFrame"}
              THEN /\ retQueued' = TRUE
                   /\ stopPc' = "awaitReturn"
                   /\ UNCHANGED <<gen, mic, graph, ctx, bufferIndex, frameCount,
                                  frameQueue, isDone, resolveNext, ready>>
              ELSE /\ GenReturn
                   /\ stopPc' = "returned"
  /\ UNCHANGED <<consumer, current, frames, iteratorRef, loopLocals, waitCount>>
  /\ stopAt' = frameCount
  /\ UNCHANGED <<cfgVars, libVars, samplesIn, produced, yielded>>

\* return() resolved before the timeout
ReturnAcked ==
  /\ app = "demo" /\ stopPc = "returned"
  /\ iteratorRef' = FALSE
  /\ stopPc' = "awaitProcess"
  /\ UNCHANGED <<consumer, current, frames, recording, recordingRef, status,
                 loopLocals, stoppedRef, waitCount>>
  /\ UNCHANGED <<cfgVars, libVars, sdkVars, histVars>>

\* "Generator cleanup timeout": the race rejects, the error is logged, the
\* reference is dropped
CancelTimeout ==
  /\ app = "demo" /\ stopPc = "awaitReturn" /\ ~MicrotaskPending
  /\ iteratorRef' = FALSE
  /\ stopPc' = "awaitProcess"
  /\ UNCHANGED <<consumer, current, frames, recording, recordingRef, status,
                 loopLocals, stoppedRef, waitCount>>
  /\ UNCHANGED <<cfgVars, libVars, sdkVars, histVars>>

\* processVoiceFrames' promise settled, or its 2000 ms timeout fired
ProcessWaitDone ==
  /\ app = "demo" /\ stopPc = "awaitProcess"
  /\ Finished(consumer) \/ ~MicrotaskPending
  /\ stopPc' = "waitFrames"
  /\ UNCHANGED <<consumer, current, frames, recording, recordingRef, iteratorRef,
                 status, loopLocals, stoppedRef, waitCount>>
  /\ UNCHANGED <<cfgVars, libVars, sdkVars, histVars>>

\* one 100 ms turn of the wait for a first frame
PollTick ==
  /\ app = "demo" /\ stopPc = "waitFrames" /\ ~MicrotaskPending
  /\ Len(frames) = 0 /\ waitCount < PollLimit
  /\ waitCount' = waitCount + 1
  /\ UNCHANGED <<consumer, current, frames, recording, recordingRef, iteratorRef,
                 status, loopLocals, stoppedRef, stopPc>>
  /\ UNCHANGED <<cfgVars, libVars, sdkVars, histVars>>

\* the key the upload-URL response names
S3Key == "s3key"

\* the rest of handleStopAndUpload: nothing captured, or encrypt and upload;
\* the PUT is answered with putStatus or its fetch rejects
StopFinish(outcome, putStatus) ==
  /\ app = "demo" /\ stopPc = "waitFrames" /\ ~MicrotaskPending
  /\ ~(Len(frames) = 0 /\ waitCount < PollLimit)
  /\ IF Len(frames) = 0
       THEN /\ status' = "NoVoice"
            /\ UNCHANGED <<frames, stoppedRef, uploadVars>>
       ELSE IF outcome = "urlFailed"
              THEN /\ status' = "UploadUrlFailed"
                   /\ UNCHANGED <<frames, stoppedRef, uploadVars>>
              ELSE /\ status' = IF outcome = "putRejected" THEN "UploadFailed"
                                                         ELSE "Uploaded"
                   /\ appBlobKey' = IF outcome = "putRejected" THEN appBlobKey ELSE S3Key
                   /\ putResponse' = IF outcome = "putRejected" THEN 0 ELSE putStatus
                   /\ frames' = <<>>
                   /\ stoppedRef' = FALSE
  /\ stopPc' = "finished"
  /\ UNCHANGED <<consumer, current, recording, recordingRef, iteratorRef,
                 loopLocals, waitCount>>
  /\ UNCHANGED <<cfgVars, cbVars, apiVars, chatVars, sdkVars, histVars>>

UploadOutcomes == {"urlFailed", "putRejected", "putAnswered"}
\* statuses S3 answers a PUT with
PutStatuses == {200, 403}

\* ------------------------------------------------------- specifications
\* chunks as the ScriptProcessorNode delivers them, any verdicts
Audio ==
  /\ frameCount < MaxFrameCount
  /\ \E voice \in Verdicts(Completes(bufferIndex,
                     LoopBound(sdk, frameSize, ProcessorBufferSize(sdk, frameSize)),
                     frameSize)) :
       AudioCallback(ProcessorBufferSize(sdk, frameSize), voice)

Speech ==
  /\ frameCount < MaxFrameCount
  /\ OnSpeechEnd

Upload == \E o \in UploadOutcomes, putStatus \in PutStatuses : StopFinish(o, putStatus)

AllSpeech(k) == [i \in 1..k |-> TRUE]

\* a talker who never pauses, followed past maxFrames
AudioSpeech ==
  /\ frameCount < maxFrames + MaxExtraFrames
  /\ AudioCallback(ProcessorBufferSize(sdk, frameSize),
                   AllSpeech(Completes(bufferIndex,
                     LoopBound(sdk, frameSize, ProcessorBufferSize(sdk, frameSize)),
                     frameSize)))

\* silences among the first n frames, p the speech frames among them: frames
\* skipped before the first, between two and after the last element of p
Pauses(p, n) ==
  Cardinality({i \in 1..Len(p) : p[i] > (IF i = 1 THEN 0 ELSE p[i - 1] + 1)})
    + (IF n > (IF Len(p) = 0 THEN 0 ELSE p[Len(p)] + 1) THEN 1 ELSE 0)

\* a talker who pauses at most MaxPauses times, followed until minFrames speech
\* frames, speechTimeout silent frames and one more frame have passed
AudioPaused ==
  /\ frameCount < minFrames + speechTimeout + 1
  /\ \E voice \in Verdicts(Completes(bufferIndex,
                     LoopBound(sdk, frameSize, ProcessorBufferSize(sdk, frameSize)),
                     frameSize)) :
       /\ AudioCallback(ProcessorBufferSize(sdk, frameSize), voice)
       /\ Pauses(produced', frameCount') <= MaxPauses

Next ==
  \/ MicGranted \/ MicDenied \/ Audio \/ Speech \/ GenYield
  \/ HandleStartCollect \/ CollectBody \/ CollectCatch \/ HandleStopCollect
  \/ HandleStartLegacy \/ LegacyBody \/ LegacyCatch \/ HandleStopLegacy
  \/ HandleStartLoop \/ VizGranted \/ VizDenied \/ LoopBody \/ LoopDelayDone
  \/ LoopCatch \/ HandleStopLoop
  \/ HandleStartRecording \/ DemoBody \/ DemoCatch \/ HandleStopAndUpload
  \/ ReturnAcked \/ CancelTimeout \/ ProcessWaitDone \/ PollTick \/ Upload

Spec == Init /\ [][Next]_vars

CollectSteps == HandleStartCollect \/ CollectBody \/ CollectCatch \/ HandleStopCollect
LoopSteps ==
  \/ HandleStartLoop \/ VizGranted \/ VizDenied \/ LoopBody \/ LoopDelayDone
  \/ LoopCatch \/ HandleStopLoop

\* long sessions of the two task-c client versions
InitMax == Init /\ app \in {"loop", "collect"}
NextMax ==
  \/ MicGranted \/ MicDenied \/ AudioSpeech \/ GenYield
  \/ CollectSteps \/ LoopSteps
SpecMax == InitMax /\ [][NextMax]_vars

\* draining sessions of the frame loop
InitDrain == Init /\ app = "loop"
NextDrain == MicGranted \/ MicDenied \/ AudioPaused \/ GenYield \/ LoopSteps
SpecDrain == InitDrain /\ [][NextDrain]_vars

\* every step the event loop, a timer or the browser takes by itself is
\* eventually taken; clicks and the talker's speech are not forced.
\* Past MaxFrameCount frames the talker is silent: a silent callback changes
\* bufferIndex, frameCount and samplesIn only, resolves no promise and queues
\* nothing, and the model stops counting it, so an endless silence is a
\* behaviour that ends in stuttering steps.
Fairness ==
  /\ WF_vars(Next)
  /\ WF_vars(MicGranted \/ MicDenied)
  /\ WF_vars(Audio)
  /\ WF_vars(GenYield)
  /\ WF_vars(CollectBody) /\ WF_vars(CollectCatch)
  /\ WF_vars(LegacyBody) /\ WF_vars(LegacyCatch)
  /\ WF_vars(VizGranted \/ VizDenied)
  /\ WF_vars(LoopBody) /\ WF_vars(LoopDelayDone) /\ WF_vars(LoopCatch)
  /\ WF_vars(DemoBody) /\ WF_vars(DemoCatch)
  /\ WF_vars(ReturnAcked) /\ WF_vars(CancelTimeout) /\ WF_vars(ProcessWaitDone)
  /\ WF_vars(PollTick) /\ WF_vars(Upload)

FairSpec == Spec /\ Fairness

TypeOK ==
  /\ gen \in {"none", "awaitMic", "awaitFrame", "frameReady", "atYield", "done"}
  /\ bufferIndex \in 0..(frameSize - 1)
  /\ Len(frameQueue) <= MaxQueue

\* ------------------------------------------------------------- properties
IsPrefix(s, t) == Len(s) <= Len(t) /\ SubSeq(t, 1, Len(s)) = s

Held == mic = "live" \/ graph = "connected" \/ ctx = "open"

\* C1: the samples received equal frameSize times the completed frames plus
\* the samples buffered
SamplesConserved ==
  sdk # "micVad" => samplesIn = frameSize * frameCount + bufferIndex

\* C2: the frames yielded so far are a prefix of the speech frames produced
YieldedInProductionOrder == IsPrefix(yielded, produced)

\* C2 witness: two frames were yielded, one handed to the waiting pull and one
\* taken from the queue, while a third is still queued
YieldedThroughQueue == Len(yielded) >= 2 /\ Len(frameQueue) >= 1

\* C3: a pull that is pending when the generator is cancelled is eventually
\* resolved
PendingPullResolved ==
  (retQueued /\ gen = "awaitFrame" /\ consumer = "waiting") ~> (consumer # "waiting")

\* C4: once the channel is closed no produced speech frame is left undelivered
DrainedOnClose == isDone => Len(frameQueue) = 0

\* the four exits: the loop broke on the stop flag, on maxFrames, on an error,
\* or the stop handler is past its cancellation of the iterator
Exited ==
  \/ consumer \in {"stopped", "maxed", "caught"}
  \/ stopPc \in {"awaitProcess", "waitFrames", "finished"}

\* C5: after each exit the tracks are stopped, the nodes disconnected, the
\* context closed and the channel done
CleanupOnEveryExit ==
  Exited => (~Held /\ (isDone \/ mic = "none"))

StopClicked == stopAt >= 0

\* C6: after a stop request the microphone and the graph are eventually
\* released
StopReleases == StopClicked ~> ~Held

\* C7: once the cancellation timeout fired with the return() still
\* unacknowledged, the microphone and the graph are released
ForcedCleanupAfterTimeout ==
  (retQueued /\ stopPc \in {"awaitProcess", "waitFrames", "finished"}) => ~Held

\* C8: at most maxFrames frames are accepted into the recording
AcceptedAtMostMax == Len(frames) <= maxFrames

Last(q) == q[Len(q)]
Max(a, b) == IF a >= b THEN a ELSE b

\* the frame about to be accepted follows a stop request, minFrames accepted
\* frames and speechTimeout silent frames since the later of the stop request
\* and the last speech frame
Drained ==
  /\ stopAt >= 0
  /\ Len(frames) >= minFrames
  /\ current - Max(stopAt, Last(frames) + 1) >= speechTimeout

\* C9: once a stop was requested, framesSinceLastSpeech >= 20 and
\* totalFrames >= 5, no further frame is accepted; and the loop does not leave
\* on the stop-requested path earlier
DrainStopsAccepting ==
  /\ [][frames' # frames => ~Drained]_vars
  /\ [](consumer = "stopped" =>
          StopCondition(TRUE, appFrameCount, lastSpeechFrame))

\* the session state the handlers' flags and the loop position stand for
SessionState ==
  IF consumer = "none" THEN "Idle"
  ELSE IF consumer = "caught" THEN "Errored"
  ELSE IF consumer \in {"stopped", "maxed", "ended"} THEN "Stopped"
  ELSE IF stopAt >= 0 THEN "Draining"
  ELSE "Listening"

SessionEdge ==
  LET a == SessionState
      b == SessionState'
  IN \/ a = b
     \/ a = "Idle" /\ b = "Listening"
     \/ a = "Listening" /\ b = "Draining"
     \/ a = "Draining" /\ b = "Stopped"
     \/ a \in {"Listening", "Draining"} /\ b = "Stopped" /\ Len(frames) >= maxFrames
     \/ a \in {"Idle", "Listening", "Draining"} /\ b = "Errored"

\* C10: the session state moves only along Idle -> Listening -> Draining ->
\* Stopped, to Stopped at maxFrames and to Errored on failure, and a stopped
\* or errored session accepts no frame
SessionTransitions ==
  [][/\ SessionEdge
     /\ SessionState \in {"Stopped", "Errored"} => Len(frames') <= Len(frames)]_vars

\* ------------------------------------------------- configuration checks
\* A sensitivity is held as ten times the JavaScript number it stands for, so
\* that 1.5 is 15; NaN is a value of its own that no comparison accepts.
NaN == 1000000
Lt(a, b) == a # NaN /\ b # NaN /\ a < b

\* the error the generator throws before its first await, "none" without one
ConfigError(sens, fd, sr) ==
  IF Lt(sens, 0) \/ Lt(30, sens)
    THEN "VAD sensitivity must be between 0 and 3"
  ELSE IF fd \notin {10, 20, 30}
    THEN "VAD frame duration must be 10, 20, or 30 ms"
  ELSE IF sr \notin {8000, 16000, 32000, 48000}
    THEN "VAD sample rate must be 8000, 16000, 32000, or 48000 Hz"
  ELSE "none"

\* configurations a caller of the SDK may pass
Sensitivities == {-10, 0, 10, 15, 20, 30, 40, NaN}
FrameDurations == {10, 15, 20, 30, 40}
SampleRates == {8000, 16000, 32000, 44100, 48000}

\* for await (const { frame, timestamp } of recordAndDetectVoice(config)):
\* the first next() runs the generator up to its first await
CallerStart ==
  /\ app = "caller" /\ consumer = "none"
  /\ IF ConfigError(sensitivity, frameDuration, sampleRate) = "none"
       THEN gen' = "awaitMic" /\ consumer' = "waiting"
       ELSE gen' = "done" /\ consumer' = "threw"
  /\ UNCHANGED <<retQueued, mic, graph, ctx, bufferIndex, frameCount, frameQueue,
                 isDone, resolveNext, ready>>
  /\ UNCHANGED <<current, frames, recording, recordingRef, iteratorRef, status,
                 loopLocals, demoLocals>>
  /\ UNCHANGED <<cfgVars, libVars, histVars>>

\* the loop body handles the frame and pulls the next one
CallerBody ==
  /\ app = "caller" /\ consumer = "body"
  /\ frames' = Append(frames, current)
  /\ GenNext
  /\ consumer' = IF gen = "atYield" THEN "waiting" ELSE "ended"
  /\ current' = NoFrame
  /\ UNCHANGED <<recording, recordingRef, iteratorRef, status, loopLocals, demoLocals>>
  /\ UNCHANGED <<cfgVars, libVars, histVars>>

\* the rejection of next() leaves the loop
CallerCatch ==
  /\ app = "caller" /\ consumer = "threw"
  /\ consumer' = "caught"
  /\ UNCHANGED <<current, frames, recording, recordingRef, iteratorRef, status,
                 loopLocals, demoLocals>>
  /\ UNCHANGED <<cfgVars, libVars, sdkVars, histVars>>

CallerSteps == CallerStart \/ CallerBody \/ CallerCatch

\* sessions a caller starts with any configuration
InitConfig ==
  /\ app = "caller" /\ sdk = "taskB"
  /\ sensitivity \in Sensitivities
  /\ frameDuration \in FrameDurations
  /\ sampleRate \in SampleRates
  /\ SessionIdle
  /\ LibIdle
NextConfig == CallerSteps \/ MicGranted \/ MicDenied \/ Audio \/ GenYield
SpecConfig == InitConfig /\ [][NextConfig]_vars

\* the configurations the specification admits
Admitted ==
  /\ sensitivity \in {0, 10, 20, 30}
  /\ frameDuration \in {10, 20, 30}
  /\ sampleRate \in {8000, 16000, 32000, 48000}

\* C11: a started session whose configuration is not admitted has failed with
\* a configuration error and holds no stream, context or processor
InvalidConfigRejected ==
  (consumer # "none" /\ ~Admitted) =>
     (gen = "done" /\ consumer \in {"threw", "caught"} /\ ~Held /\ mic = "none")

\* --------------------------------- task-c client SDK, TypeScript source
\* The audio callback of sdk/index.ts is an async function: it suspends at
\* `await vad.processFrame(buffer)` for every full buffer and goes on with the
\* rest of its chunk when the scorer settles.  The scorer settles before the
\* next chunk arrives; its continuation and the generator's are microtasks.
AsyncSdks == {"clientTs", "part000"}

\* getUserMedia resolved: the context, the source and the processor are
\* created, then the generator awaits AudioNodeVAD.new
MicGrantedAsync ==
  /\ sdk \in AsyncSdks
  /\ gen = "awaitMic" /\ ~MicrotaskPending
  /\ mic' = "live" /\ ctx' = "open"
  /\ gen' = "awaitVad"
  /\ UNCHANGED <<retQueued, graph, bufferIndex, frameCount, frameQueue, isDone,
                 resolveNext, ready>>
  /\ UNCHANGED <<cfgVars, libVars, appVars, histVars>>

\* AudioNodeVAD.new resolved: the handler is installed, the nodes are
\* connected and the loop starts waiting
VadLoaded ==
  /\ gen = "awaitVad" /\ ~MicrotaskPending
  /\ graph' = "connected"
  /\ gen' = "awaitFrame" /\ resolveNext' = TRUE
  /\ UNCHANGED <<retQueued, mic, ctx, bufferIndex, frameCount, frameQueue, isDone, ready>>
  /\ UNCHANGED <<cfgVars, libVars, appVars, histVars>>

\* AudioNodeVAD.new rejected: the generator throws outside its try block
VadFailed ==
  /\ gen = "awaitVad" /\ ~MicrotaskPending
  /\ gen' = "done"
  /\ consumer' = IF consumer = "waiting" THEN "threw" ELSE consumer
  /\ UNCHANGED <<retQueued, mic, graph, ctx, bufferIndex, frameCount, frameQueue,
                 isDone, resolveNext, ready>>
  /\ UNCHANGED <<current, frames, recording, recordingRef, iteratorRef, status,
                 loopLocals, demoLocals>>
  /\ UNCHANGED <<cfgVars, libVars, histVars>>

\* the fill loop with n samples to read, up to its next await or its end:
\* every iteration stores a sample and advances bufferIndex, and suspends
\* when bufferIndex >= frameSize
RunToAwait(bi, n, fs) ==
  LET need == IF bi >= fs THEN 1 ELSE fs - bi
  IN IF n >= need
       THEN [bi |-> bi + need, left |-> n - need]
       ELSE [bi |-> bi + n, left |-> -1]

\* processor.onaudioprocess with a chunk of len samples
AudioCallbackAsync(len) ==
  /\ sdk \in AsyncSdks
  /\ graph = "connected" /\ ~MicrotaskPending
  /\ cbLeft = -1
  /\ IF isDone
       THEN UNCHANGED <<bufferIndex, cbLeft, samplesIn>>
       ELSE LET r == RunToAwait(bufferIndex, len, frameSize)
            IN /\ bufferIndex' = r.bi
               /\ cbLeft' = r.left
               /\ samplesIn' = samplesIn + len
  /\ UNCHANGED <<gen, retQueued, mic, graph, ctx, frameCount, frameQueue, isDone,
                 resolveNext, ready>>
  /\ UNCHANGED <<cbError, cbNested, apiVars, chatVars, uploadVars, stopAt, produced, yielded>>
  /\ UNCHANGED <<cfgVars, appVars>>

ScorerOutcomes == {"speech", "silence", "throw"}

\* vad.processFrame settles.  A rejection ends the callback at the await: its
\* promise rejects and nothing else is touched.  Otherwise lastIsSpeech
\* decides whether the frame is handed to the pending pull or queued, the
\* buffer is reset and the loop reads on.
Scored(outcome) ==
  /\ cbLeft >= 0 /\ ~MicrotaskPending
  /\ IF outcome = "throw"
       THEN /\ cbLeft' = -1
            /\ cbError' = IF cbError = -1 THEN frameCount ELSE cbError
            /\ UNCHANGED <<bufferIndex, frameCount, frameQueue, resolveNext, ready,
                           gen, produced>>
       ELSE LET hasVoice == outcome = "speech"
                handed == hasVoice /\ resolveNext
                queued == hasVoice /\ ~resolveNext
                r == RunToAwait(0, cbLeft, frameSize)
            IN /\ queued => Len(frameQueue) < MaxQueue
               /\ frameQueue' = IF queued THEN Append(frameQueue, frameCount)
                                          ELSE frameQueue
               /\ resolveNext' = IF handed THEN FALSE ELSE resolveNext
               /\ ready' = IF handed THEN frameCount ELSE ready
               /\ gen' = IF handed THEN "frameReady" ELSE gen
               /\ produced' = IF hasVoice THEN Append(produced, frameCount)
                                          ELSE produced
               /\ frameCount' = frameCount + 1
               /\ bufferIndex' = r.bi
               /\ cbLeft' = r.left
               /\ UNCHANGED cbError
  /\ UNCHANGED <<retQueued, mic, graph, ctx, isDone>>
  /\ UNCHANGED <<cbNested, apiVars, chatVars, uploadVars, stopAt, samplesIn, yielded>>
  /\ UNCHANGED <<cfgVars, appVars>>

\* chunks as the ScriptProcessorNode delivers them; a callback that ended in a
\* rejection completes no frame, so the chunks are counted too
AudioAsync ==
  /\ frameCount < MaxFrameCount
  /\ samplesIn < (MaxFrameCount + 1) * ProcessorBufferSize(sdk, frameSize)
  /\ AudioCallbackAsync(ProcessorBufferSize(sdk, frameSize))

Scorer == \E o \in ScorerOutcomes : Scored(o)

\* valid configurations of a direct caller
CallerConfigs == {<<DefaultSampleRate, DefaultFrameDuration>>, <<8000, 10>>}

\* sessions over the async callback: the collect application, whose import
\* './sdk/index' type-checks against this source, and a direct caller
InitScorer ==
  /\ app \in {"collect", "caller"}
  /\ sdk \in AsyncSdks
  /\ \E c \in (IF app = "caller" THEN CallerConfigs ELSE ConfigsOf(app)) :
       sampleRate = c[1] /\ frameDuration = c[2]
  /\ sensitivity = SensitivityOf("collect")
  /\ SessionIdle
  /\ LibIdle
NextScorer ==
  \/ MicGrantedAsync \/ MicDenied \/ VadLoaded \/ VadFailed
  \/ AudioAsync \/ Scorer \/ GenYield
  \/ CollectSteps \/ CallerSteps
SpecScorer == InitScorer /\ [][NextScorer]_vars

\* C12: once the scorer threw on a frame the session is over: the consumer is
\* given no frame that was scored after the failure
NoFrameAfterScorerError ==
  cbError >= 0 => \A i \in 1..Len(yielded) : yielded[i] < cbError

\* -------------------------------------------------------------- encodings
\* A string is the sequence of its code points, a buffer the sequence of its
\* bytes, a base64 text the sequence of its ASCII codes.
Bytes == 0..255

RECURSIVE Utf8Encode(_)
\* TextEncoder.encode
Utf8Encode(str) ==
  IF Len(str) = 0 THEN <<>>
  ELSE LET c == Head(str)
           first == IF c < 128 THEN <<c>>
                    ELSE IF c < 2048
                      THEN <<192 + (c \div 64), 128 + (c % 64)>>
                      ELSE <<224 + (c \div 4096), 128 + ((c \div 64) % 64), 128 + (c % 64)>>
       IN first \o Utf8Encode(Tail(str))

ReplacementChar == 65533
IsContinuation(b) == b >= 128 /\ b < 192

RECURSIVE Utf8Decode(_)
\* TextDecoder.decode: a byte that starts no well-formed sequence becomes
\* U+FFFD
Utf8Decode(b) ==
  IF Len(b) = 0 THEN <<>>
  ELSE IF b[1] < 128 THEN <<b[1]>> \o Utf8Decode(Tail(b))
  ELSE IF b[1] >= 194 /\ b[1] < 224 /\ Len(b) >= 2 /\ IsContinuation(b[2])
    THEN <<(b[1] - 192) * 64 + (b[2] - 128)>> \o Utf8Decode(SubSeq(b, 3, Len(b)))
  ELSE IF /\ b[1] >= 224 /\ b[1] < 240 /\ Len(b) >= 3
          /\ IsContinuation(b[2]) /\ IsContinuation(b[3])
          /\ (b[1] - 224) * 4096 + (b[2] - 128) * 64 >= 2048
    THEN <<(b[1] - 224) * 4096 + (b[2] - 128) * 64 + (b[3] - 128)>>
           \o Utf8Decode(SubSeq(b, 4, Len(b)))
  ELSE <<ReplacementChar>> \o Utf8Decode(Tail(b))

\* the base64 alphabet: A-Z a-z 0-9 + /
SextetToChar(s) ==
  IF s < 26 THEN 65 + s
  ELSE IF s < 52 THEN 97 + (s - 26)
  ELSE IF s < 62 THEN 48 + (s - 52)
  ELSE IF s = 62 THEN 43 ELSE 47

IsBase64Char(c) ==
  \/ c >= 65 /\ c <= 90
  \/ c >= 97 /\ c <= 122
  \/ c >= 48 /\ c <= 57
  \/ c \in {43, 47}

CharToSextet(c) ==
  IF c >= 65 /\ c <= 90 THEN c - 65
  ELSE IF c >= 97 /\ c <= 122 THEN c - 97 + 26
  ELSE IF c >= 48 /\ c <= 57 THEN c - 48 + 52
  ELSE IF c = 43 THEN 62 ELSE 63

PadChar == 61
AsciiWhitespace == {9, 10, 12, 13, 32}

RECURSIVE Base64Encode(_)
\* btoa(String.fromCharCode(...bytes))
Base64Encode(b) ==
  IF Len(b) = 0 THEN <<>>
  ELSE IF Len(b) = 1
    THEN <<SextetToChar(b[1] \div 4), SextetToChar((b[1] % 4) * 16), PadChar, PadChar>>
  ELSE IF Len(b) = 2
    THEN <<SextetToChar(b[1] \div 4),
           SextetToChar((b[1] % 4) * 16 + (b[2] \div 16)),
           SextetToChar((b[2] % 16) * 4), PadChar>>
  ELSE <<SextetToChar(b[1] \div 4),
         SextetToChar((b[1] % 4) * 16 + (b[2] \div 16)),
         SextetToChar((b[2] % 16) * 4 + (b[3] \div 64)),
         SextetToChar(b[3] % 64)>> \o Base64Encode(SubSeq(b, 4, Len(b)))

RECURSIVE SextetsToBytes(_)
\* four sextets give three bytes; of a last group of two or three sextets the
\* bits past the last whole byte are dropped
SextetsToBytes(s) ==
  IF Len(s) = 0 THEN <<>>
  ELSE IF Len(s) = 2
    THEN <<s[1] * 4 + (s[2] \div 16)>>
  ELSE IF Len(s) = 3
    THEN <<s[1] * 4 + (s[2] \div 16), (s[2] % 16) * 16 + (s[3] \div 4)>>
  ELSE <<s[1] * 4 + (s[2] \div 16), (s[2] % 16) * 16 + (s[3] \div 4),
         (s[3] % 4) * 64 + s[4]>> \o SextetsToBytes(SubSeq(s, 5, Len(s)))

RECURSIVE Without(_, _)
Without(t, set) ==
  IF Len(t) = 0 THEN <<>>
  ELSE IF Head(t) \in set THEN Without(Tail(t), set)
  ELSE <<Head(t)>> \o Without(Tail(t), set)

\* trailing padding removed when the length is a multiple of four
Unpadded(t) ==
  IF Len(t) % 4 = 0 /\ Len(t) > 0 /\ t[Len(t)] = PadChar
    THEN IF t[Len(t) - 1] = PadChar
           THEN SubSeq(t, 1, Len(t) - 2)
           ELSE SubSeq(t, 1, Len(t) - 1)
    ELSE t

\* atob and the byte copy of base64ToArrayBuffer: ok is FALSE where atob throws
Base64Decode(text) ==
  LET t == Unpadded(Without(text, AsciiWhitespace))
  IN IF Len(t) % 4 = 1 \/ \E i \in 1..Len(t) : ~IsBase64Char(t[i])
       THEN [ok |-> FALSE, bytes |-> <<>>]
       ELSE [ok |-> TRUE, bytes |-> SextetsToBytes([i \in 1..Len(t) |-> CharToSextet(t[i])])]

\* ------------------------------------------------------------- encryption
\* crypto.subtle is modelled as an ideal AEAD: a key is a number, the
\* ciphertext is the plaintext shifted by a keystream of the key and the IV,
\* and the 16-byte tag is a digest of key, IV and ciphertext that changes with
\* any single-bit change of one of them.  getRandomValues is an ideal
\* generator: its n-th output differs from every earlier one.
IvLength == 12
tagLength == 16

\* undefined passed, or nothing passed, as the key argument
NoKey == 0
\* the key getKeyFromPassphrase derives from the application's passphrase
PassphraseKey == 1
\* the key the n-th generateKey call returns
GeneratedKey(n) == 10 + n

\* a generator that returns the same bytes on every draw
ConstantValues(n, len) == [i \in 1..len |-> i]

\* window.crypto.getRandomValues(new Uint8Array(len)), n-th draw
RandomValues(n, len) == [i \in 1..len |-> (17 * n + i) % 256]

RECURSIVE SumSeq(_)
SumSeq(s) == IF Len(s) = 0 THEN 0 ELSE Head(s) + SumSeq(Tail(s))

Keystream(k, iv, i) == (13 * k + SumSeq(iv) + i) % 256

Tag(k, iv, ct) ==
  [i \in 1..tagLength |->
     CASE i = 1 -> k % 256
       [] i = 2 -> Len(ct) % 256
       [] i = 3 -> SumSeq(iv) % 256
       [] i = 4 -> SumSeq([j \in 1..Len(iv) |-> j * iv[j]]) % 256
       [] OTHER -> SumSeq([j \in 1..Len(ct) |->
                             IF j % (tagLength - 4) = i - 5 THEN ct[j] ELSE 0]) % 256]

\* crypto.subtle.encrypt({ name: 'AES-GCM', iv }, key, data): ciphertext
\* followed by the tag
AeadSeal(k, iv, pt) ==
  LET ct == [i \in 1..Len(pt) |-> (pt[i] + Keystream(k, iv, i)) % 256]
  IN ct \o Tag(k, iv, ct)

\* a decryption that hands out the plaintext without comparing the tag
AeadOpenUnchecked(k, iv, data) ==
  LET n == IF Len(data) >= tagLength THEN Len(data) - tagLength ELSE 0
  IN [ok |-> TRUE,
      bytes |-> [i \in 1..n |-> (data[i] + 256 - Keystream(k, iv, i)) % 256]]

\* crypto.subtle.decrypt({ name: 'AES-GCM', iv }, key, data): ok is FALSE
\* where it rejects with an OperationError
AeadOpen(k, iv, data) ==
  IF Len(data) < tagLength THEN [ok |-> FALSE, bytes |-> <<>>]
  ELSE LET n == Len(data) - tagLength
           ct == SubSeq(data, 1, n)
           tag == SubSeq(data, n + 1, Len(data))
       IN IF tag = Tag(k, iv, ct)
            THEN [ok |-> TRUE,
                  bytes |-> [i \in 1..n |-> (ct[i] + 256 - Keystream(k, iv, i)) % 256]]
            ELSE [ok |-> FALSE, bytes |-> <<>>]

\* the three encryptBlob / decryptBlob pairs of the repository:
\*   "taskB"    src/task-B/src/index.ts          encryptBlob(data)
\*   "clientJs" src/task-c/client/src/sdk/index.js  encryptBlob(data, key)
\*   "clientTs" src/task-c/client/src/sdk/index.ts  encryptBlob(plaintext, key)
Codecs == {"taskB", "clientJs", "clientTs"}

\* the values a blob variable can hold
SplitBlob(iv, ct, tag) ==
  [kind |-> "split", iv |-> iv, ciphertext |-> ct, tag |-> tag, data |-> <<>>]
BytesBlob(data) ==
  [kind |-> "bytes", iv |-> <<>>, ciphertext |-> <<>>, tag |-> <<>>, data |-> data]
\* a plain object with the keys "0", "1", ... and no methods
IndexedObject(data) ==
  [kind |-> "object", iv |-> <<>>, ciphertext |-> <<>>, tag |-> <<>>, data |-> data]
NoBlob == [kind |-> "none", iv |-> <<>>, ciphertext |-> <<>>, tag |-> <<>>, data |-> <<>>]

\* splitting the AEAD output into ciphertext and tag, and joining them again
SplitOutput(encrypted) ==
  [tag |-> SubSeq(encrypted, Len(encrypted) - tagLength + 1, Len(encrypted)),
   ciphertext |-> SubSeq(encrypted, 1, Len(encrypted) - tagLength)]
FullCipher(ciphertext, tag) == ciphertext \o tag

\* a key slot filled from generateKey whatever the caller passed
UseGeneratedKey(codec, keyArg, kg) == GeneratedKey(kg + 1)

\* the key encryptBlob encrypts under; kg keys were generated before
UseKey(codec, keyArg, kg) ==
  CASE codec = "taskB" -> GeneratedKey(kg + 1)
    [] codec = "clientJs" -> IF keyArg # NoKey THEN keyArg ELSE GeneratedKey(kg + 1)
    [] codec = "clientTs" -> keyArg

\* generateKey calls of one encryptBlob
KeysGeneratedBy(codec, keyArg) ==
  CASE codec = "taskB" -> 1
    [] codec = "clientJs" -> IF keyArg # NoKey THEN 0 ELSE 1
    [] codec = "clientTs" -> 0

\* the IV of an encryptBlob call; rd draws were made before
FreshIv(rd) == RandomValues(rd + 1, IvLength)

\* encryptBlob: the value its promise settles with
EncryptBlob(codec, data, keyArg, kg, rd) ==
  LET key == UseKey(codec, keyArg, kg)
      iv == FreshIv(rd)
  IN IF key = NoKey
       THEN [ok |-> FALSE, error |-> "TypeError", blob |-> NoBlob, key |-> NoKey,
             iv |-> iv, encrypted |-> <<>>]
       ELSE LET encrypted == AeadSeal(key, iv, Utf8Encode(data))
                parts == SplitOutput(encrypted)
            IN [ok |-> TRUE, error |-> "none", key |-> key, iv |-> iv,
                encrypted |-> encrypted,
                blob |-> IF codec = "clientTs"
                           THEN BytesBlob(iv \o encrypted)
                           ELSE SplitBlob(Base64Encode(iv),
                                          Base64Encode(parts.ciphertext),
                                          Base64Encode(parts.tag))]

Failed(error) == [ok |-> FALSE, error |-> error, text |-> <<>>]

\* the decryption of iv and fullCipher and the decoding of its result
OpenAndDecode(key, iv, fullCipher) ==
  LET decrypted == AeadOpen(key, iv, fullCipher)
  IN IF key = NoKey THEN Failed("TypeError")
     ELSE IF ~decrypted.ok THEN Failed("OperationError")
     ELSE [ok |-> TRUE, error |-> "none", text |-> Utf8Decode(decrypted.bytes)]

\* decryptBlob: the value its promise settles with
DecryptBlob(codec, blob, key) ==
  IF codec = "clientTs"
    THEN IF blob.kind # "bytes"
           THEN Failed("TypeError")
           ELSE OpenAndDecode(key,
                              SubSeq(blob.data, 1, IF Len(blob.data) < IvLength
                                                     THEN Len(blob.data) ELSE IvLength),
                              SubSeq(blob.data, IvLength + 1, Len(blob.data)))
    ELSE IF blob.kind # "split"
           THEN Failed("InvalidCharacterError")
           ELSE LET ivBuf == Base64Decode(blob.iv)
                    ciphertextBuf == Base64Decode(blob.ciphertext)
                    tagBuf == Base64Decode(blob.tag)
                IN IF ~ivBuf.ok \/ ~ciphertextBuf.ok \/ ~tagBuf.ok
                     THEN Failed("InvalidCharacterError")
                     ELSE OpenAndDecode(key, ivBuf.bytes,
                                        FullCipher(ciphertextBuf.bytes, tagBuf.bytes))

\* ------------------------------------------------- callers of the codec
\* encryptBlob calls a behaviour is followed for
MaxEncrypts == 2
\* code points of the longest plaintext
MaxPlainLen == 2

\* plaintexts: strings over a one-byte and a two-byte character
Alphabet == {65, 233}
Plaintexts == UNION {[1..n -> Alphabet] : n \in 0..MaxPlainLen}

\* the module an application's import of encryptBlob and decryptBlob can
\* resolve to: './sdk/index' of the collect application names both index.js
\* and index.ts
CodecOf(a) ==
  IF a = "collect" THEN {"clientJs", "clientTs"} ELSE Codecs

\* one encryptBlob call
Logged(data, keyArg) ==
  LET r == EncryptBlob(sdk, data, keyArg, keysGenerated, rngDraws)
  IN /\ encLog' = Append(encLog, [codec |-> sdk, data |-> data, keyArg |-> keyArg,
                                  generated |-> KeysGeneratedBy(sdk, keyArg),
                                  ok |-> r.ok, key |-> r.key, iv |-> r.iv,
                                  encrypted |-> r.encrypted, blob |-> r.blob])
     /\ keysGenerated' = keysGenerated + KeysGeneratedBy(sdk, keyArg)
     /\ rngDraws' = rngDraws + 1
     /\ call' = [fn |-> "encryptBlob", of |-> Len(encLog) + 1]

Encrypted(data, keyArg) == Len(encLog) < MaxEncrypts /\ Logged(data, keyArg)

\* a caller encrypts a string, with its key or with none
CallEncrypt(data, keyArg) ==
  /\ app = "caller"
  /\ Encrypted(data, keyArg)
  /\ UNCHANGED <<callerKeys, stored, chatVars, uploadVars>>
  /\ UNCHANGED <<cfgVars, cbVars, sdkVars, appVars, histVars>>

\* a caller generates a key of its own for the decryption
CallerGenerateKey ==
  /\ app = "caller"
  /\ Cardinality(callerKeys) <= Len(encLog)
  /\ callerKeys' = callerKeys \cup {GeneratedKey(keysGenerated + 1)}
  /\ keysGenerated' = keysGenerated + 1
  /\ call' = [fn |-> "generateKey"]
  /\ UNCHANGED <<encLog, rngDraws, stored, chatVars, uploadVars>>
  /\ UNCHANGED <<cfgVars, cbVars, sdkVars, appVars, histVars>>

\* a caller decrypts the blob of its i-th encryptBlob call under a key it holds
CallDecrypt(i, key) ==
  /\ app = "caller"
  /\ i \in 1..Len(encLog) /\ encLog[i].ok
  /\ key \in callerKeys
  /\ call' = [fn |-> "decryptBlob", of |-> i, key |-> key,
              result |-> DecryptBlob(sdk, encLog[i].blob, key)]
  /\ UNCHANGED <<encLog, keysGenerated, rngDraws, callerKeys, stored, chatVars, uploadVars>>
  /\ UNCHANGED <<cfgVars, cbVars, sdkVars, appVars, histVars>>

\* JSON.stringify of a blob: an object of three strings keeps its members, a
\* Uint8Array is written as an object of its indices
JsonStringify(blob) ==
  [present |-> TRUE,
   members |-> IF blob.kind = "split" THEN "iv,ciphertext,tag" ELSE "0,1,2,...",
   iv |-> blob.iv, ciphertext |-> blob.ciphertext, tag |-> blob.tag,
   data |-> blob.data]

\* JSON.parse: every JSON object becomes a plain object
JsonParse(item) ==
  IF item.members = "iv,ciphertext,tag"
    THEN SplitBlob(item.iv, item.ciphertext, item.tag)
    ELSE IndexedObject(item.data)

\* [...existingHistory, conversation].slice(-3)
HistoryLimit == 3
LastN(h, n) == SubSeq(h, IF Len(h) > n THEN Len(h) - n + 1 ELSE 1, Len(h))

\* JSON.stringify of a history; a conversation is held as its user message,
\* one character, and written as a JSON string:  ["A","é"]
RECURSIVE JsonEntries(_)
JsonEntries(h) ==
  IF h = <<>> THEN <<>>
  ELSE <<34, Head(h), 34>> \o (IF Len(h) > 1 THEN <<44>> ELSE <<>>) \o JsonEntries(Tail(h))
JsonStringifyHistory(h) == <<91>> \o JsonEntries(h) \o <<93>>

NotJson == [ok |-> FALSE, list |-> <<>>]
RECURSIVE ParseEntries(_)
ParseEntries(t) ==
  IF Len(t) >= 3 /\ t[1] = 34 /\ t[2] # 34 /\ t[3] = 34
    THEN IF Len(t) = 3 THEN [ok |-> TRUE, list |-> <<t[2]>>]
         ELSE IF t[4] = 44
           THEN LET rest == ParseEntries(SubSeq(t, 5, Len(t)))
                IN [ok |-> rest.ok, list |-> <<t[2]>> \o rest.list]
           ELSE NotJson
    ELSE NotJson
\* JSON.parse of a decrypted history string
JsonParseHistory(text) ==
  IF Len(text) >= 2 /\ text[1] = 91 /\ text[Len(text)] = 93
    THEN IF Len(text) = 2 THEN [ok |-> TRUE, list |-> <<>>]
         ELSE ParseEntries(SubSeq(text, 2, Len(text) - 1))
    ELSE NotJson

\* saveConversationToHistory as called by a handleChat whose closure holds
\* existingHistory: the updated history is encrypted under the passphrase key,
\* the blob is stored as JSON and the state is set; an error is logged
SaveConversationToHistory(existingHistory, conversation) ==
  LET updatedHistory == LastN(Append(existingHistory, conversation), HistoryLimit)
  IN /\ Logged(JsonStringifyHistory(updatedHistory), PassphraseKey)
     /\ stored' = IF encLog'[Len(encLog')].ok
                    THEN JsonStringify(encLog'[Len(encLog')].blob)
                    ELSE stored
     /\ conversationHistory' = IF encLog'[Len(encLog')].ok
                                 THEN updatedHistory
                                 ELSE conversationHistory
     /\ UNCHANGED callerKeys

\* handleSendTranscript: handleChat starts with the state of this render
HandleSendTranscript(userTranscript) ==
  /\ app = "collect"
  /\ chats' = Append(chats, [user |-> userTranscript, existing |-> conversationHistory])
  /\ UNCHANGED <<conversationHistory, completed, apiVars, uploadVars>>
  /\ UNCHANGED <<cfgVars, cbVars, sdkVars, appVars, histVars>>


\* the chat completion of the i-th waiting handleChat arrives: the exchange
\* is complete and is saved to the history
ChatAnswered(i) ==
  /\ app = "collect"
  /\ i \in 1..Len(chats)
  /\ completed' = Append(completed, chats[i].user)
  /\ SaveConversationToHistory(chats[i].existing, chats[i].user)
  /\ chats' = SubSeq(chats, 1, i - 1) \o SubSeq(chats, i + 1, Len(chats))
  /\ UNCHANGED <<cfgVars, cbVars, uploadVars, sdkVars, appVars, histVars>>

\* the chat request fails: handleChat reports the error, nothing is saved
ChatFailed(i) ==
  /\ app = "collect"
  /\ i \in 1..Len(chats)
  /\ chats' = SubSeq(chats, 1, i - 1) \o SubSeq(chats, i + 1, Len(chats))
  /\ UNCHANGED <<conversationHistory, completed, apiVars, uploadVars>>
  /\ UNCHANGED <<cfgVars, cbVars, sdkVars, appVars, histVars>>

\* an exchange that is sent and answered with nothing in between
HandleChat(userTranscript) ==
  /\ app = "collect"
  /\ chats = <<>>
  /\ completed' = Append(completed, userTranscript)
  /\ SaveConversationToHistory(conversationHistory, userTranscript)
  /\ UNCHANGED <<chats, uploadVars>>
  /\ UNCHANGED <<cfgVars, cbVars, sdkVars, appVars, histVars>>

\* the page is loaded again: the state starts empty, requests in flight are
\* gone, and the mount effect calls loadConversationHistory, which parses and
\* decrypts the stored item under the passphrase key and sets the state; an
\* error is logged and nothing is loaded
LoadConversationHistory ==
  /\ app = "collect"
  /\ stored.present
  /\ LET decrypted == DecryptBlob(sdk, JsonParse(stored), PassphraseKey)
         history == JsonParseHistory(decrypted.text)
     IN /\ call' = [fn |-> "loadConversationHistory", of |-> Len(encLog),
                    result |-> decrypted]
        /\ conversationHistory' = IF decrypted.ok /\ history.ok
                                    THEN history.list ELSE <<>>
  /\ chats' = <<>>
  /\ UNCHANGED <<encLog, keysGenerated, rngDraws, callerKeys, stored, completed, uploadVars>>
  /\ UNCHANGED <<cfgVars, cbVars, sdkVars, appVars, histVars>>

\* the key arguments the signature of each encryptBlob admits: none for
\* encryptBlob(data), optional for the compiled encryptBlob(data, key),
\* required for encryptBlob(plaintext, key: CryptoKey)
KeyArgs(codec) ==
  CASE codec = "taskB" -> {NoKey}
    [] codec = "clientJs" -> {NoKey, PassphraseKey}
    [] codec = "clientTs" -> {PassphraseKey}

Encrypt == \E data \in Plaintexts, keyArg \in KeyArgs(sdk) : CallEncrypt(data, keyArg)
Decrypt == \E i \in 1..MaxEncrypts, key \in callerKeys : CallDecrypt(i, key)
Save ==
  /\ Len(encLog) < MaxEncrypts
  /\ \E userTranscript \in Alphabet : HandleChat(userTranscript)

InitCrypto ==
  /\ app \in {"caller", "collect"}
  /\ sdk \in CodecOf(app)
  /\ sampleRate = DefaultSampleRate /\ frameDuration = DefaultFrameDuration
  /\ sensitivity = SensitivityOf("collect")
  /\ SessionIdle
  /\ CallbackIdle
  /\ call = [fn |-> "none"]
  /\ encLog = <<>> /\ keysGenerated = 0 /\ rngDraws = 0
  /\ callerKeys = {PassphraseKey}
  /\ stored = [present |-> FALSE]
  /\ ChatIdle /\ UploadIdle
NextCrypto ==
  \/ Encrypt \/ CallerGenerateKey \/ Decrypt
  \/ Save \/ LoadConversationHistory
SpecCrypto == InitCrypto /\ [][NextCrypto]_vars

\* C13: the key of every blob encryptBlob returned is held by the caller, and
\* decryptBlob under that key returns the plaintext that was encrypted
RoundTripUnderCallerKey ==
  /\ \A i \in 1..Len(encLog) : encLog[i].ok => encLog[i].key \in callerKeys
  /\ (call.fn = "decryptBlob" /\ call.key = encLog[call.of].key) =>
       (call.result.ok /\ call.result.text = encLog[call.of].data)

\* -------------------------------------------------------------- tampering
\* 2^j, j in 0..7
Bit(j) == CASE j = 0 -> 1 [] j = 1 -> 2 [] j = 2 -> 4 [] j = 3 -> 8
            [] j = 4 -> 16 [] j = 5 -> 32 [] j = 6 -> 64 [] j = 7 -> 128

\* v with its bit j inverted
FlipBit(v, j) ==
  IF (v \div Bit(j)) % 2 = 1 THEN v - Bit(j) ELSE v + Bit(j)

FlipAt(s, pos, j) == [s EXCEPT ![pos] = FlipBit(s[pos], j)]

\* the bytes of a field of a blob encryptBlob returned
FieldBytes(blob, field) ==
  IF blob.kind = "split"
    THEN Base64Decode(IF field = "tag" THEN blob.tag ELSE blob.ciphertext).bytes
    ELSE IF field = "tag"
      THEN SubSeq(blob.data, Len(blob.data) - tagLength + 1, Len(blob.data))
      ELSE SubSeq(blob.data, IvLength + 1, Len(blob.data) - tagLength)

\* the blob with the bytes of one field replaced
WithFieldBytes(blob, field, bytes) ==
  IF blob.kind = "split"
    THEN IF field = "tag"
           THEN [blob EXCEPT !.tag = Base64Encode(bytes)]
           ELSE [blob EXCEPT !.ciphertext = Base64Encode(bytes)]
    ELSE IF field = "tag"
      THEN [blob EXCEPT !.data = SubSeq(blob.data, 1, Len(blob.data) - tagLength) \o bytes]
      ELSE [blob EXCEPT !.data = SubSeq(blob.data, 1, IvLength) \o bytes
                                   \o SubSeq(blob.data, Len(blob.data) - tagLength + 1,
                                             Len(blob.data))]

\* the base64 text of a field of a split blob
FieldText(blob, field) == IF field = "tag" THEN blob.tag ELSE blob.ciphertext

WithFieldText(blob, field, text) ==
  IF field = "tag" THEN [blob EXCEPT !.tag = text] ELSE [blob EXCEPT !.ciphertext = text]

Fields == {"ciphertext", "tag"}

\* A behaviour of the tampering specification is one encryptBlob call followed
\* by one decryptBlob call on a changed copy of the blob.
\* decryptBlob, under the encrypting key, of a blob of which one bit of one
\* byte of a field was inverted
DecryptTamperedBytes(field, pos, j) ==
  /\ call.fn = "encryptBlob" /\ encLog[1].ok
  /\ pos \in 1..Len(FieldBytes(encLog[1].blob, field))
  /\ LET bytes == FieldBytes(encLog[1].blob, field)
         blob == WithFieldBytes(encLog[1].blob, field, FlipAt(bytes, pos, j))
     IN call' = [fn |-> "decryptBlob", of |-> 1, key |-> encLog[1].key,
                 tampered |-> [level |-> "bytes", field |-> field, pos |-> pos, bit |-> j],
                 sameBytes |-> FALSE,
                 result |-> DecryptBlob(sdk, blob, encLog[1].key)]
  /\ UNCHANGED <<encLog, keysGenerated, rngDraws, callerKeys, stored, chatVars, uploadVars>>
  /\ UNCHANGED <<cfgVars, cbVars, sdkVars, appVars, histVars>>

\* the same with one bit of one character of the base64 text of a field
\* inverted
DecryptTamperedText(field, pos, j) ==
  /\ call.fn = "encryptBlob" /\ encLog[1].ok
  /\ encLog[1].blob.kind = "split"
  /\ pos \in 1..Len(FieldText(encLog[1].blob, field))
  /\ LET text == FlipAt(FieldText(encLog[1].blob, field), pos, j)
         blob == WithFieldText(encLog[1].blob, field, text)
     IN call' = [fn |-> "decryptBlob", of |-> 1, key |-> encLog[1].key,
                 tampered |-> [level |-> "text", field |-> field, pos |-> pos, bit |-> j],
                 sameBytes |-> Base64Decode(text) =
                                 Base64Decode(FieldText(encLog[1].blob, field)),
                 result |-> DecryptBlob(sdk, blob, encLog[1].key)]
  /\ UNCHANGED <<encLog, keysGenerated, rngDraws, callerKeys, stored, chatVars, uploadVars>>
  /\ UNCHANGED <<cfgVars, cbVars, sdkVars, appVars, histVars>>

\* longest field of a blob the model produces, in characters
MaxFieldLen == 4 * ((tagLength + 2 * MaxPlainLen + 2) \div 3)

EncryptOnce == Len(encLog) = 0 /\ Encrypt
TamperBytes ==
  \E field \in Fields, pos \in 1..MaxFieldLen, j \in 0..7 :
    DecryptTamperedBytes(field, pos, j)
TamperText ==
  \E field \in Fields, pos \in 1..MaxFieldLen, j \in 0..6 :
    DecryptTamperedText(field, pos, j)

InitTamper == InitCrypto /\ app = "caller"
NextTamper == EncryptOnce \/ TamperBytes \/ TamperText
SpecTamper == InitTamper /\ [][NextTamper]_vars

IsTampered == call.fn = "decryptBlob" /\ "tampered" \in DOMAIN call

\* C14: decryptBlob under the correct key rejects, with the error of the
\* underlying decryption and without any plaintext, every blob of which one
\* bit of the ciphertext bytes or of the tag bytes was changed
TamperedBytesRejected ==
  (IsTampered /\ ~call.sameBytes) =>
     /\ ~call.result.ok
     /\ call.result.text = <<>>
     /\ call.tampered.level = "bytes" => call.result.error = "OperationError"

\* C14 witness: a bit of the tag bytes of a returned blob was changed and
\* decryptBlob rejected with the error of the decryption
TagBitRejected ==
  /\ IsTampered /\ call.tampered.level = "bytes" /\ call.tampered.field = "tag"
  /\ call.result.error = "OperationError"

\* C14 as stated: decryptBlob rejects every blob of which one bit of the
\* ciphertext field or of the tag field was changed
TamperedFieldRejected ==
  IsTampered => (~call.result.ok /\ call.result.text = <<>>)

\* ---------------------------------------------------- codec properties
\* pairs of successful encryptBlob calls under one key
SameKeyPairs ==
  {p \in (1..Len(encLog)) \X (1..Len(encLog)) :
     /\ p[1] < p[2]
     /\ encLog[p[1]].ok /\ encLog[p[2]].ok
     /\ encLog[p[1]].key = encLog[p[2]].key}

\* what a blob carries as its ciphertext: the ciphertext field of the split
\* form, the bytes after the IV of the combined form
CiphertextOf(blob) ==
  IF blob.kind = "split" THEN blob.ciphertext
  ELSE SubSeq(blob.data, IvLength + 1, Len(blob.data))

BlobParts(blob) ==
  IF blob.kind = "split"
    THEN [iv |-> Base64Decode(blob.iv).bytes,
          tag |-> Base64Decode(blob.tag).bytes,
          encrypted |-> FullCipher(Base64Decode(blob.ciphertext).bytes,
                                   Base64Decode(blob.tag).bytes)]
    ELSE [iv |-> SubSeq(blob.data, 1, IvLength),
          tag |-> SubSeq(blob.data, Len(blob.data) - tagLength + 1, Len(blob.data)),
          encrypted |-> SubSeq(blob.data, IvLength + 1, Len(blob.data))]

\* C17: every returned blob, in either form, gives back the 12-byte IV, a
\* 16-byte tag and the AEAD output byte for byte, and the blob an application
\* stored is read back by the decryptBlob of the module that wrote it
BlobFormsInterconvert ==
  /\ \A i \in 1..Len(encLog) :
       encLog[i].ok =>
         LET parts == BlobParts(encLog[i].blob)
         IN /\ parts.iv = encLog[i].iv /\ Len(parts.iv) = IvLength
            /\ Len(parts.tag) = tagLength
            /\ parts.encrypted = encLog[i].encrypted
  /\ call.fn = "loadConversationHistory" =>
       (call.result.ok /\ call.result.text = encLog[call.of].data)

\* -------------------------------------------------------------- transfers
\* uploadBlob, downloadAndDecrypt, uploadBlobToS3 and downloadBlobFromS3 each
\* call fetch and suspend until it settles.  A URL and an error message are
\* the sequences of the parts their template literals join.
TransferFns == {"uploadBlobToS3", "downloadBlobFromS3", "uploadBlob", "downloadAndDecrypt"}

Urls == {"https://bucket/put", "https://bucket/get"}
Blobs == {"blob1", "blob2"}
Tokens == {"", "token"}
BlobKeys == {"k1", "a/b"}
\* the CryptoKey objects a caller passes to downloadAndDecrypt
CryptoKeys == {PassphraseKey, GeneratedKey(1)}

\* encodeURIComponent on the sample keys
EncodeURIComponent(s) == IF s = "a/b" THEN "a%2Fb" ELSE s

\* responses a server can give
Statuses == {200, 204, 299, 300, 403, 404, 500}
ReasonPhrase(code) ==
  CASE code = 200 -> "OK"
    [] code = 204 -> "No Content"
    [] code = 403 -> "Forbidden"
    [] code = 404 -> "Not Found"
    [] code = 500 -> "Internal Server Error"
    [] OTHER -> ""
\* the body: whether it parses as JSON, the members blobKey and plaintext of
\* the parsed object ("" and <<>> when absent or empty), whether it has a
\* member plaintext at all, and the body as a Blob
Bodies ==
  {body \in [json : BOOLEAN, blobKey : {"", "k1"}, hasPlaintext : BOOLEAN,
             plaintext : {<<>>, Base64Encode(Utf8Encode(<<65, 233>>))},
             blob : Blobs] :
     /\ ~body.hasPlaintext => body.plaintext = <<>>
     /\ ~body.json => ~body.hasPlaintext}
\* the status text is the reason phrase, or empty as over HTTP/2
Responses ==
  UNION {{[status |-> s, statusText |-> t, body |-> b] :
            t \in {"", ReasonPhrase(s)}, b \in Bodies} : s \in Statuses}
NoResponse == [status |-> 0, statusText |-> "", body |->
                 [json |-> FALSE, blobKey |-> "", hasPlaintext |-> FALSE,
                  plaintext |-> <<>>, blob |-> "none"]]

\* response.ok, read as any status below 400
OkBelow400(response) == response.status < 400

\* response.ok
Ok(response) == response.status >= 200 /\ response.status <= 299

\* a download request that names the caller's key in its query string
RequestWithKey(fn, args) ==
  [method |-> "GET",
   url |-> <<args.url, "?blobKey=", EncodeURIComponent(args.blobKey), "&key=", args.key>>,
   body |-> <<>>, headers |-> {}]

\* the request each function passes to fetch
Request(fn, args) ==
  CASE fn = "uploadBlobToS3" ->
         [method |-> "PUT", url |-> <<args.url>>, body |-> <<args.blob>>, headers |-> {}]
    [] fn = "downloadBlobFromS3" ->
         [method |-> "GET", url |-> <<args.url>>, body |-> <<>>, headers |-> {}]
    [] fn = "uploadBlob" ->
         [method |-> "POST", url |-> <<args.url>>, body |-> <<"file", args.blob>>,
          headers |-> IF args.token # ""
                        THEN {<<"Authorization", "Bearer ", args.token>>} ELSE {}]
    [] fn = "downloadAndDecrypt" ->
         [method |-> "GET",
          url |-> <<args.url, "?blobKey=", EncodeURIComponent(args.blobKey)>>,
          body |-> <<>>, headers |-> {}]

Resolved(c, response, value) ==
  [c EXCEPT !.state = "resolved", !.response = response, !.value = value]
Rejected(c, response, error) ==
  [c EXCEPT !.state = "rejected", !.response = response, !.error = error]

\* the rest of each function once fetch resolved with a response
AfterUploadBlobToS3(c, response) ==
  IF ~Ok(response)
    THEN Rejected(c, response, <<"S3 upload failed: ", response.statusText>>)
    ELSE Resolved(c, response, <<>>)

\* a download that hands out the body whatever the status
AfterDownloadUnchecked(c, response) ==
  Resolved(c, response, <<response.body.blob>>)

AfterDownloadBlobFromS3(c, response) ==
  IF ~Ok(response)
    THEN Rejected(c, response, <<"S3 download failed: ", response.statusText>>)
    ELSE Resolved(c, response, <<response.body.blob>>)

AfterUploadBlob(c, response) ==
  IF ~Ok(response)
    THEN Rejected(c, response, <<"Upload failed: ", response.statusText>>)
  ELSE IF ~response.body.json
    THEN Rejected(c, response, <<"SyntaxError">>)
  ELSE IF response.body.blobKey = ""
    THEN Rejected(c, response, <<"No blobKey returned from server">>)
  ELSE Resolved(c, response, <<response.body.blobKey>>)

AfterDownloadAndDecrypt(c, response) ==
  IF ~Ok(response)
    THEN Rejected(c, response, <<"Download failed: ", response.statusText>>)
  ELSE IF ~response.body.json
    THEN Rejected(c, response, <<"SyntaxError">>)
  ELSE IF response.body.plaintext = <<>>
    THEN Rejected(c, response, <<"No plaintext returned from server">>)
  ELSE LET plaintextBuf == Base64Decode(response.body.plaintext)
       IN IF ~plaintextBuf.ok
            THEN Rejected(c, response, <<"InvalidCharacterError">>)
            ELSE Resolved(c, response, Utf8Decode(plaintextBuf.bytes))

\* a continuation that sends the request again after a response that is not ok
RetryAfterResponse(c, response) ==
  IF ~Ok(response) /\ Len(c.sent) < 2
    THEN [c EXCEPT !.sent = Append(c.sent, Request(c.fn, c.args))]
    ELSE Resolved(c, response, <<>>)

\* the continuation of the awaiting function
AfterResponse(c, response) ==
  CASE c.fn = "uploadBlobToS3" -> AfterUploadBlobToS3(c, response)
    [] c.fn = "downloadBlobFromS3" -> AfterDownloadBlobFromS3(c, response)
    [] c.fn = "uploadBlob" -> AfterUploadBlob(c, response)
    [] c.fn = "downloadAndDecrypt" -> AfterDownloadAndDecrypt(c, response)

InFlight == call.fn \in TransferFns /\ call.state = "pending"

\* a function is called: it builds its request, calls fetch and awaits
Called(fn, args) ==
  /\ ~InFlight
  /\ call' = [fn |-> fn, args |-> args, sent |-> <<Request(fn, args)>>,
              state |-> "pending", response |-> NoResponse,
              value |-> <<>>, error |-> <<>>]
  /\ UNCHANGED <<encLog, keysGenerated, rngDraws, callerKeys, stored, chatVars, uploadVars>>
  /\ UNCHANGED <<cfgVars, cbVars, sdkVars, appVars, histVars>>

NoArg == ""
UploadBlobToS3 ==
  \E blob \in Blobs, url \in Urls :
    Called("uploadBlobToS3", [blob |-> blob, url |-> url, token |-> NoArg, blobKey |-> NoArg, key |-> NoKey])
DownloadBlobFromS3 ==
  \E url \in Urls :
    Called("downloadBlobFromS3", [blob |-> NoArg, url |-> url, token |-> NoArg, blobKey |-> NoArg, key |-> NoKey])
UploadBlob ==
  \E blob \in Blobs, url \in Urls, token \in Tokens :
    Called("uploadBlob", [blob |-> blob, url |-> url, token |-> token, blobKey |-> NoArg, key |-> NoKey])
DownloadAndDecrypt ==
  \E blobKey \in BlobKeys, url \in Urls, key \in CryptoKeys :
    Called("downloadAndDecrypt", [blob |-> NoArg, url |-> url, token |-> NoArg,
                                  blobKey |-> blobKey, key |-> key])

\* fetch resolves with a response
FetchResolved ==
  /\ InFlight
  /\ \E response \in Responses : call' = AfterResponse(call, response)
  /\ UNCHANGED <<encLog, keysGenerated, rngDraws, callerKeys, stored, chatVars, uploadVars>>
  /\ UNCHANGED <<cfgVars, cbVars, sdkVars, appVars, histVars>>

\* fetch rejects: the network failed or the request was refused
FetchRejected ==
  /\ InFlight
  /\ call' = Rejected(call, NoResponse, <<"TypeError">>)
  /\ UNCHANGED <<encLog, keysGenerated, rngDraws, callerKeys, stored, chatVars, uploadVars>>
  /\ UNCHANGED <<cfgVars, cbVars, sdkVars, appVars, histVars>>

InitTransfer ==
  /\ app = "caller" /\ sdk = "taskB"
  /\ sampleRate = DefaultSampleRate /\ frameDuration = DefaultFrameDuration
  /\ sensitivity = SensitivityOf("legacy")
  /\ SessionIdle
  /\ LibIdle
NextTransfer ==
  \/ UploadBlobToS3 \/ DownloadBlobFromS3 \/ UploadBlob \/ DownloadAndDecrypt
  \/ FetchResolved \/ FetchRejected
SpecTransfer == InitTransfer /\ [][NextTransfer]_vars

Settled(fn) == call.fn = fn /\ call.state # "pending"
Answered == call.response # NoResponse
Carries(error, text) == \E i \in 1..Len(error) : error[i] = text

\* C18: uploadBlobToS3 resolves exactly when the response to its PUT has a
\* status from 200 to 299; otherwise it rejects, and the error of a response
\* with another status carries the response's status text
UploadToS3ResolvesIffOk ==
  Settled("uploadBlobToS3") =>
    /\ call.state = "resolved" <=>
         (Answered /\ call.response.status >= 200 /\ call.response.status <= 299)
    /\ (Answered /\ call.state = "rejected") =>
         Carries(call.error, call.response.statusText)

\* C18 witness: the PUT was answered 403 Forbidden and uploadBlobToS3 rejected
\* with an error that carries "Forbidden"
UploadForbidden ==
  /\ Settled("uploadBlobToS3") /\ call.state = "rejected"
  /\ call.response.status = 403 /\ Carries(call.error, "Forbidden")
  /\ call.sent[1].method = "PUT"

\* C19: downloadBlobFromS3 sends one GET to the presigned URL; answered with a
\* status from 200 to 299 it resolves with the blob of that response, answered
\* otherwise it rejects with an error that carries the status text and
\* returns no blob
DownloadFromS3ReturnsBody ==
  call.fn = "downloadBlobFromS3" =>
    /\ Len(call.sent) = 1
    /\ call.sent[1].method = "GET" /\ call.sent[1].url = <<call.args.url>>
    /\ (Settled("downloadBlobFromS3") /\ Answered) =>
         IF call.response.status >= 200 /\ call.response.status <= 299
           THEN call.state = "resolved" /\ call.value = <<call.response.body.blob>>
           ELSE /\ call.state = "rejected" /\ call.value = <<>>
                /\ Carries(call.error, call.response.statusText)

\* C19 witness: a download was answered 200 and resolved with the body
DownloadedBlob ==
  /\ Settled("downloadBlobFromS3") /\ call.state = "resolved"
  /\ call.response.status = 200 /\ call.value = <<"blob2">>

\* C20: a call of any of the four functions has sent exactly one request, the
\* one built from its arguments, and once it was answered with a status
\* outside 200..299 it has rejected
OneRequestPerCall ==
  call.fn \in TransferFns =>
    /\ call.sent = <<Request(call.fn, call.args)>>
    /\ (Answered /\ ~(call.response.status >= 200 /\ call.response.status <= 299)) =>
         call.state = "rejected"

\* C20 witness: downloadAndDecrypt was answered 500 and rejected after its
\* one request
FailedWithoutRetry ==
  /\ Settled("downloadAndDecrypt") /\ call.state = "rejected"
  /\ call.response.status = 500 /\ Len(call.sent) = 1

\* C21: downloadAndDecrypt asks for decryption with a POST whose body is
\* {blobKey}, and what it returns is the base64 decoding of the response's
\* plaintext member, read as UTF-8
DecryptIsPostOfBlobKey ==
  call.fn = "downloadAndDecrypt" =>
    /\ call.sent[1].method = "POST"
    /\ call.sent[1].body = <<"blobKey", call.args.blobKey>>
    /\ call.state = "resolved" =>
         call.value = Utf8Decode(Base64Decode(call.response.body.plaintext).bytes)

\* the call as downloadAndDecrypt would have been entered with another key
WithKey(c, key) ==
  [c EXCEPT !.args.key = key, !.sent = <<Request(c.fn, [c.args EXCEPT !.key = key])>>,
            !.state = "pending", !.response = NoResponse, !.value = <<>>, !.error = <<>>]

\* C22: a call of downloadAndDecrypt with any other key argument sends the
\* same request, which names no key, and given the same response settles the
\* same way with the same value or error
KeyArgumentIgnored ==
  call.fn = "downloadAndDecrypt" =>
    \A key \in CryptoKeys :
      /\ WithKey(call, key).sent = call.sent
      /\ call.sent[1].headers = {} /\ call.sent[1].body = <<>>
      /\ call.sent[1].url = <<call.args.url, "?blobKey=", EncodeURIComponent(call.args.blobKey)>>
      /\ (Settled("downloadAndDecrypt") /\ Answered) =>
           LET other == AfterResponse(WithKey(call, key), call.response)
           IN /\ other.state = call.state
              /\ other.value = call.value
              /\ other.error = call.error

\* C22 witness: a call made with the generated key resolved with the
\* plaintext the broker returned
DecryptedByBroker ==
  /\ Settled("downloadAndDecrypt") /\ call.state = "resolved"
  /\ call.args.key = GeneratedKey(1)
  /\ call.value = <<65, 233>>

\* ------------------------------------------------------ stopping and restarting
\* the steps that finish a Stop click: the three handleStop versions and the
\* end of handleStopAndUpload
StopHandled == HandleStopCollect \/ HandleStopLegacy \/ HandleStopLoop \/ Upload

\* C23: a Stop that finds no frame collected leaves the no-speech status and
\* goes on to neither transcription nor upload
EmptyStopReported ==
  [][(StopHandled /\ Len(frames) = 0) => status' \in {"NoSpeech", "NoVoice"}]_vars

\* A Talk click after a Stop, second version of the task-c client.  The button
\* is enabled as soon as `recording` is false.  handleStart makes a new
\* generator and collectFrames issues its first next(); the variables of the
\* generator, of the loop and of the histories follow the new session from
\* here on, the generator and the loop of the session before are left as
\* they were at the click.
RestartCollect ==
  /\ app = "collect" /\ gen # "none" /\ ~recording /\ ~MicrotaskPending
  /\ status' = "Listening"
  /\ frames' = <<>>
  /\ recording' = TRUE /\ recordingRef' = TRUE
  /\ iteratorRef' = TRUE
  /\ gen' = "awaitMic" /\ retQueued' = FALSE
  /\ mic' = "none" /\ graph' = "none" /\ ctx' = "none"
  /\ bufferIndex' = 0 /\ frameCount' = 0 /\ frameQueue' = <<>>
  /\ isDone' = FALSE /\ resolveNext' = FALSE /\ ready' = NoFrame
  /\ consumer' = "waiting" /\ current' = NoFrame
  /\ stopAt' = -1 /\ samplesIn' = 0 /\ produced' = <<>> /\ yielded' = <<>>
  /\ UNCHANGED <<loopLocals, demoLocals, cfgVars, libVars>>

NextRestart == Next \/ RestartCollect
SpecRestart == Init /\ [][NextRestart]_vars

\* C24: no session is started while the generator of the session before
\* still holds a live stream, a connected graph or an open context
OneSessionHoldsMic == [][RestartCollect => ~Held]_vars

\* -------------------------------------------------------- segmenter runs
\* chunks of silence a segmenter run is followed for
MaxChunks == 15

\* the SDKs whose audio callback fills the frame buffer sample by sample
SegmenterSdks == {"taskB", "clientJs", "demoSdk"}

\* a chunk in which the classifier finds no voice
AudioSilence ==
  /\ samplesIn < MaxChunks * ProcessorBufferSize(sdk, frameSize)
  /\ AudioCallback(ProcessorBufferSize(sdk, frameSize),
                   [i \in 1..Completes(bufferIndex,
                        LoopBound(sdk, frameSize, ProcessorBufferSize(sdk, frameSize)),
                        frameSize) |-> FALSE])

\* sessions of a caller of each SDK, under every configuration it accepts
InitSegment ==
  /\ app = "caller" /\ sdk \in SegmenterSdks
  /\ sensitivity \in {0, 10, 20, 30}
  /\ frameDuration \in {10, 20, 30}
  /\ sampleRate \in {8000, 16000, 32000, 48000}
  /\ SessionIdle
  /\ LibIdle
NextSegment == CallerStart \/ MicGranted \/ MicDenied \/ AudioSilence
SpecSegment == InitSegment /\ [][NextSegment]_vars

\* C25: once the chunks received add up to k times frameSize, k frames have
\* been completed
WholeFramesCompleted ==
  (sdk \in SegmenterSdks /\ samplesIn % frameSize = 0) =>
     frameCount = samplesIn \div frameSize

\* ------------------------------------------------------- energy classifier
\* detectVoiceActivity.  A sample is held as ten thousand times the
\* JavaScript number it stands for, so that 0.0003 is 3 and 0.5 is 5000; a
\* threshold likewise.  index.js and demo/src/sdk.ts carry the text of
\* task-B/src/index.ts; the VAD-only client SDK has a table of its own.
DetectorSdks == {"taskB", "vadOnly"}

thresholds(s) ==
  IF s = "vadOnly" THEN <<50, 30, 20, 10>> ELSE <<10, 5, 2, 1>>

\* thresholds[sensitivity] || 0.0002: an index that is no element of the
\* table reads undefined and the default is taken
ThresholdOf(s, sens) ==
  IF sens \in {0, 10, 20, 30}
    THEN thresholds(s)[sens \div 10 + 1]
    ELSE IF s = "vadOnly" THEN 20 ELSE 2

\* the loop that adds up buffer[i] * buffer[i]
SumSquares(buffer) == SumSeq([i \in 1..Len(buffer) |-> buffer[i] * buffer[i]])

\* a classifier that compares the mean of the samples with the threshold
MeanAbove(buffer, t) ==
  Len(buffer) > 0 /\ SumSeq(buffer) > t * Len(buffer)

\* Math.sqrt(sum / buffer.length) > threshold.  Both sides are not negative,
\* so the comparison is the one of their squares; an empty buffer gives
\* 0 / 0, which is NaN and greater than nothing.
RmsAbove(buffer, t) ==
  Len(buffer) > 0 /\ SumSquares(buffer) > t * t * Len(buffer)

\* a classifier whose comparison points the other way
DetectBelow(s, buffer, sens) == ~RmsAbove(buffer, ThresholdOf(s, sens))

DetectVoiceActivity(s, buffer, sens) == RmsAbove(buffer, ThresholdOf(s, sens))

\* samples per buffer the model explores
MaxBufferLen == 2
Amplitudes == {-100, 0, 1, 3, 100, 5000}
Buffers == UNION {[1..n -> Amplitudes] : n \in 0..MaxBufferLen}
DetectSensitivities == {0, 10, 15, 20, 30, NaN}

\* two calls of detectVoiceActivity at one sensitivity, on the buffers `before`
\* and `buffer`.  The function keeps nothing between calls, so one pair of
\* calls is followed.
DetectVoice ==
  /\ call.fn = "none"
  /\ \E before \in Buffers, buffer \in Buffers, sens \in DetectSensitivities :
       call' = [fn |-> "detectVoiceActivity", sensitivity |-> sens,
                before |-> before, hadVoice |-> DetectVoiceActivity(sdk, before, sens),
                buffer |-> buffer, hasVoice |-> DetectVoiceActivity(sdk, buffer, sens)]
  /\ UNCHANGED <<encLog, keysGenerated, rngDraws, callerKeys, stored, chatVars, uploadVars>>
  /\ UNCHANGED <<cfgVars, cbVars, sdkVars, appVars, histVars>>

InitDetect ==
  /\ app = "caller" /\ sdk \in DetectorSdks
  /\ sampleRate = DefaultSampleRate /\ frameDuration = DefaultFrameDuration
  /\ sensitivity = SensitivityOf("legacy")
  /\ SessionIdle
  /\ LibIdle
NextDetect == DetectVoice
SpecDetect == InitDetect /\ [][NextDetect]_vars

Detected == call.fn = "detectVoiceActivity"

\* the table of the specification, in the units of the samples
SpecThresholds == <<10, 5, 2, 1>>

\* the RMS of a buffer is r
RmsIs(buffer, r) == Len(buffer) > 0 /\ SumSquares(buffer) = r * r * Len(buffer)

\* C26: at a sensitivity s of 0, 1, 2 or 3 a frame is voice exactly when its
\* RMS is above T[s], T = [0.001, 0.0005, 0.0002, 0.0001]; a frame of RMS
\* 0.0003 is silence at sensitivity 0 and voice at sensitivity 3
VoiceIffAboveTable ==
  (Detected /\ call.sensitivity \in {0, 10, 20, 30}) =>
    /\ call.hasVoice <=>
         (/\ Len(call.buffer) > 0
          /\ SumSquares(call.buffer) >
               SpecThresholds[call.sensitivity \div 10 + 1]
                 * SpecThresholds[call.sensitivity \div 10 + 1] * Len(call.buffer))
    /\ RmsIs(call.buffer, 3) =>
         /\ call.sensitivity = 0 => ~call.hasVoice
         /\ call.sensitivity = 30 => call.hasVoice

\* the RMS of b1 is below the RMS of b2
RmsLess(b1, b2) ==
  /\ Len(b1) > 0 /\ Len(b2) > 0
  /\ SumSquares(b1) * Len(b2) < SumSquares(b2) * Len(b1)

\* the sensitivities of the table at which a buffer is classified as voice
DetectedAt(s, buffer) ==
  {sens \in {0, 10, 20, 30} : DetectVoiceActivity(s, buffer, sens)}

\* C27: of two frames the one with the larger RMS is detected at every
\* sensitivity the other is detected at, and voice in the first call means
\* voice in the second
MoreRmsNoFewerDetections ==
  (Detected /\ RmsLess(call.before, call.buffer)) =>
    /\ DetectedAt(sdk, call.before) \subseteq DetectedAt(sdk, call.buffer)
    /\ call.hadVoice => call.hasVoice

\* C27 witness: RMS 0.0003 is detected at sensitivities 2 and 3, RMS 0.01 at
\* all four, and at sensitivity 0 only the second call found voice
LouderDetectedMore ==
  /\ Detected /\ sdk = "taskB"
  /\ call.before = <<3>> /\ call.buffer = <<-100>>
  /\ DetectedAt(sdk, call.before) = {20, 30}
  /\ DetectedAt(sdk, call.buffer) = {0, 10, 20, 30}
  /\ call.sensitivity = 0 /\ ~call.hadVoice /\ call.hasVoice

\* C27 as stated: the frame with the larger RMS is detected at strictly more
\* sensitivities
MoreRmsMoreDetections ==
  (Detected /\ RmsLess(call.before, call.buffer)) =>
    /\ DetectedAt(sdk, call.before) \subseteq DetectedAt(sdk, call.buffer)
    /\ DetectedAt(sdk, call.before) # DetectedAt(sdk, call.buffer)

\* every sample of the buffer is a, as after new Float32Array(n).fill(a)
Filled(buffer, a) ==
  Len(buffer) > 0 /\ \A i \in 1..Len(buffer) : buffer[i] = a

\* C28: a frame filled with 0.01 is no voice at sensitivity 0 and voice at
\* sensitivity 3
QuietFrameBySensitivity ==
  (Detected /\ Filled(call.buffer, 100)) =>
    /\ call.sensitivity = 0 => ~call.hasVoice
    /\ call.sensitivity = 30 => call.hasVoice

\* C29: a frame of zeros is voice at no sensitivity, a frame filled with 0.5
\* is voice at each of the sensitivities 0, 1, 2 and 3
SilenceAndLoudFrames ==
  Detected =>
    /\ Filled(call.buffer, 0) => ~call.hasVoice
    /\ Filled(call.before, 0) => ~call.hadVoice
    /\ (Filled(call.buffer, 5000) /\ call.sensitivity \in {0, 10, 20, 30}) => call.hasVoice

\* C29 witness: at sensitivity 2 the first call, on zeros, found no voice and
\* the second, on a frame filled with 0.5, found voice
SilentThenLoud ==
  /\ Detected /\ call.sensitivity = 20
  /\ call.before = <<0, 0>> /\ ~call.hadVoice
  /\ call.buffer = <<5000, 5000>> /\ call.hasVoice

\* ------------------------------------------------------------- timestamps
\* A frame is known by the value frameCount had when it was classified, and
\* its timestamp is startTime + (frameCount * vadConfig.frameDuration).
Elapsed(index) == index * frameDuration

\* samples of one frame MicVAD hands to its scorer (the library's frameSamples)
MicVadFrameSamples == 1536

\* MicVAD scored a frame that ends no speech segment: no callback of the
\* generator runs
FrameProcessed ==
  /\ sdk = "micVad"
  /\ graph = "connected" /\ ~MicrotaskPending
  /\ samplesIn < MaxFrameCount * MicVadFrameSamples
  /\ samplesIn' = samplesIn + MicVadFrameSamples
  /\ UNCHANGED <<stopAt, produced, yielded>>
  /\ UNCHANGED <<cfgVars, libVars, sdkVars, appVars>>

NextStamp == Next \/ FrameProcessed
SpecStamp == Init /\ [][NextStamp]_vars

\* frames of the session that were completed, with or without speech: the
\* segmenter counts each of them, MicVAD scores frames of its own and reports
\* the speech segments
Completed ==
  IF sdk = "micVad"
    THEN samplesIn \div MicVadFrameSamples + Len(produced)
    ELSE frameCount

\* C30: the timestamp of a frame classified as speech is frameDuration times
\* its position among all frames completed in the session, and the
\* timestamps of the frames yielded increase strictly
StampIsPosition ==
  [][/\ Len(produced') = Len(produced) + 1 =>
          /\ Elapsed(Last(produced')) >= Elapsed(Completed)
          /\ Elapsed(Last(produced')) < Elapsed(Completed')
     /\ \A i \in 1..(Len(yielded') - 1) :
          Elapsed(yielded'[i]) < Elapsed(yielded'[i + 1])]_vars

\* ------------------------------------------------------------ frame size
\* samples of an emitted frame: convertToPCM makes an Int16Array of the
\* length of the buffer, which is new Float32Array(frameSize)
FrameSamples(fs) == fs

MaxLateCallbacks == 2

\* a handler that would not look at isDone
NeverClosed == FALSE

\* if (isDone) return;
ChannelClosed == isDone

\* an audioprocess event that was queued before processor.disconnect() and is
\* dispatched after it
LateAudioCallback(len, voice) ==
  /\ sdk # "micVad"
  /\ graph = "disconnected" /\ ~MicrotaskPending
  /\ samplesIn' = samplesIn + len
  /\ IF ChannelClosed
       THEN UNCHANGED <<sdkVars, stopAt, produced, yielded>>
       ELSE LET n == LoopBound(sdk, frameSize, len)
                st0 == [bi |-> bufferIndex, fc |-> frameCount, q |-> frameQueue,
                        rn |-> resolveNext, rdy |-> ready, prod |-> produced, k |-> 0]
                st == FillBuffer(n, frameSize, st0, voice)
            IN /\ bufferIndex' = st.bi
               /\ frameCount' = st.fc
               /\ frameQueue' = st.q
               /\ resolveNext' = st.rn
               /\ ready' = st.rdy
               /\ produced' = st.prod
               /\ gen' = IF resolveNext /\ ~st.rn THEN "frameReady" ELSE gen
               /\ UNCHANGED <<retQueued, mic, graph, ctx, isDone, yielded, stopAt>>
  /\ UNCHANGED <<cfgVars, libVars, appVars>>

LateAudio ==
  /\ frameCount < MaxFrameCount
  /\ samplesIn < (MaxFrameCount + MaxLateCallbacks) * ProcessorBufferSize(sdk, frameSize)
  /\ \E voice \in Verdicts(Completes(bufferIndex,
                     LoopBound(sdk, frameSize, ProcessorBufferSize(sdk, frameSize)),
                     frameSize)) :
       LateAudioCallback(ProcessorBufferSize(sdk, frameSize), voice)

NextClosed == Next \/ LateAudio
SpecClosed == Init /\ [][NextClosed]_vars

\* C32: once isDone is set it stays set, and no later step (a late audio
\* callback, a repeated return() or next()) enqueues a frame, resolves a
\* waiter, advances the frame counter or touches the released resources
ClosedStaysClosed ==
  [][isDone =>
       /\ isDone'
       /\ frameQueue' = frameQueue /\ frameCount' = frameCount
       /\ bufferIndex' = bufferIndex /\ produced' = produced
       /\ resolveNext' = resolveNext /\ ready' = ready /\ gen' = gen
       /\ mic' = mic /\ graph' = graph /\ ctx' = ctx]_vars

\* task-B was closed after a frame and an audio callback arrived afterwards
CallbackAfterClose ==
  /\ sdk = "taskB" /\ isDone /\ gen = "done"
  /\ mic = "stopped" /\ graph = "disconnected" /\ ctx = "closed"
  /\ frameCount >= 1
  /\ samplesIn > frameCount * frameSize + bufferIndex

\* ---------------------------------------------------------- request headers
\* C33: uploadBlobToS3 sends exactly one request, to the presigned URL, with
\* method PUT, the blob as body and the header Content-Type:
\* application/octet-stream
UploadToS3SendsOctetStream ==
  call.fn = "uploadBlobToS3" =>
    /\ Len(call.sent) = 1
    /\ call.sent[1].method = "PUT"
    /\ call.sent[1].url = <<call.args.url>>
    /\ call.sent[1].body = <<call.args.blob>>
    /\ <<"Content-Type", "application/octet-stream">> \in call.sent[1].headers

\* ------------------------------------------------------ conversation history
\* exchanges a behaviour is followed for, and handleChat calls in flight
MaxExchanges == 4
MaxChats == 2

SendTranscript ==
  /\ Len(chats) < MaxChats
  /\ Len(completed) + Len(chats) < MaxExchanges
  /\ \E userTranscript \in Alphabet : HandleSendTranscript(userTranscript)
ChatReply == \E i \in 1..MaxChats : ChatAnswered(i)
ChatError == \E i \in 1..MaxChats : ChatFailed(i)

InitHistory ==
  /\ app = "collect"
  /\ sdk \in CodecOf(app)
  /\ sampleRate = DefaultSampleRate /\ frameDuration = DefaultFrameDuration
  /\ sensitivity = SensitivityOf("collect")
  /\ SessionIdle
  /\ CallbackIdle
  /\ call = [fn |-> "none"]
  /\ encLog = <<>> /\ keysGenerated = 0 /\ rngDraws = 0
  /\ callerKeys = {PassphraseKey}
  /\ stored = [present |-> FALSE]
  /\ ChatIdle /\ UploadIdle
NextHistory == SendTranscript \/ ChatReply \/ ChatError \/ LoadConversationHistory
SpecHistory == InitHistory /\ [][NextHistory]_vars

\* C34: whenever the stored history has been loaded and decrypted (and nothing
\* was saved since), the history in the application is the last
\* min(n, 3) of the n completed exchanges, in their order
HistoryRoundTrips ==
  call.fn = "loadConversationHistory" =>
    conversationHistory = LastN(completed, HistoryLimit)

\* ------------------------------------------------------------------ hand-off
\* C35: a speech frame is handed to the pending pull when there is one and is
\* appended to the queue otherwise; a pending pull and a non-empty queue never
\* coexist, and a pull is pending only while the one consumer waits for it
HandOffOrEnqueue ==
  [][/\ ~(resolveNext' /\ Len(frameQueue') > 0)
     /\ (resolveNext' /\ ~isDone') => gen' = "awaitFrame"
     /\ produced' # produced =>
          /\ Len(produced') - Len(produced) =
               (Len(frameQueue') - Len(frameQueue))
                 + (IF resolveNext THEN 1 ELSE 0)
          /\ resolveNext =>
               /\ ~resolveNext'
               /\ ready' = produced'[Len(produced) + 1]
               /\ frameQueue' = SubSeq(produced', Len(produced) + 2, Len(produced'))
          /\ ~resolveNext =>
               frameQueue' = frameQueue \o SubSeq(produced', Len(produced) + 1, Len(produced'))]_vars

\* the first speech frame went straight to the waiting consumer and the next
\* one, produced while the consumer was busy, is in the queue
HandedThenQueued ==
  /\ Len(produced) = 2
  /\ yielded = <<produced[1]>>
  /\ frameQueue = <<produced[2]>>
  /\ ~resolveNext /\ ~isDone

\* ------------------------------------------------------ overlapping callbacks
\* The next chunk arrives while a callback is suspended in
\* `await vad.processFrame(buffer)`: the handler is entered again and runs on
\* the same buffer, bufferIndex and frameCount.
AudioCallbackNested(len) ==
  /\ sdk \in AsyncSdks
  /\ graph = "connected" /\ ~MicrotaskPending
  /\ cbLeft >= 0 /\ cbNested = -1
  /\ ~isDone
  /\ LET r == RunToAwait(bufferIndex, len, frameSize)
     IN /\ bufferIndex' = r.bi
        /\ cbNested' = r.left
        /\ samplesIn' = samplesIn + len
  /\ UNCHANGED <<gen, retQueued, mic, graph, ctx, frameCount, frameQueue, isDone,
                 resolveNext, ready>>
  /\ UNCHANGED <<cbLeft, cbError, apiVars, chatVars, uploadVars, stopAt, produced, yielded>>
  /\ UNCHANGED <<cfgVars, appVars>>

\* vad.processFrame settles for the callback that entered second
ScoredNested(outcome) ==
  /\ cbNested >= 0 /\ ~MicrotaskPending
  /\ IF outcome = "throw"
       THEN /\ cbNested' = -1
            /\ cbError' = IF cbError = -1 THEN frameCount ELSE cbError
            /\ UNCHANGED <<bufferIndex, frameCount, frameQueue, resolveNext, ready,
                           gen, produced>>
       ELSE LET hasVoice == outcome = "speech"
                handed == hasVoice /\ resolveNext
                queued == hasVoice /\ ~resolveNext
                r == RunToAwait(0, cbNested, frameSize)
            IN /\ queued => Len(frameQueue) < MaxQueue
               /\ frameQueue' = IF queued THEN Append(frameQueue, frameCount)
                                          ELSE frameQueue
               /\ resolveNext' = IF handed THEN FALSE ELSE resolveNext
               /\ ready' = IF handed THEN frameCount ELSE ready
               /\ gen' = IF handed THEN "frameReady" ELSE gen
               /\ produced' = IF hasVoice THEN Append(produced, frameCount)
                                          ELSE produced
               /\ frameCount' = frameCount + 1
               /\ bufferIndex' = r.bi
               /\ cbNested' = r.left
               /\ UNCHANGED cbError
  /\ UNCHANGED <<retQueued, mic, graph, ctx, isDone>>
  /\ UNCHANGED <<cbLeft, apiVars, chatVars, uploadVars, stopAt, samplesIn, yielded>>
  /\ UNCHANGED <<cfgVars, appVars>>

AudioNested ==
  /\ frameCount < MaxFrameCount
  /\ samplesIn < (MaxFrameCount + 1) * ProcessorBufferSize(sdk, frameSize)
  /\ AudioCallbackNested(ProcessorBufferSize(sdk, frameSize))
ScorerNested == \E o \in ScorerOutcomes : ScoredNested(o)

NextOverlap == NextScorer \/ AudioNested \/ ScorerNested
SpecOverlap == InitScorer /\ [][NextOverlap]_vars

NoCallbackSuspended == cbLeft = -1 /\ cbNested = -1

\* C36: with callbacks that start while another is suspended at the scorer
\* (and a scorer that never fails), bufferIndex never exceeds frameSize, and
\* while no callback is suspended every sample delivered is in exactly one
\* completed frame or in the buffer, in input order
OverlapKeepsSegmentation ==
  cbError = -1 =>
    /\ bufferIndex <= frameSize
    /\ (NoCallbackSuspended /\ ~isDone) =>
         samplesIn = frameCount * frameSize + bufferIndex

\* -------------------------------------------------------------- failed setup
\* C37: a generator that ended, by a failed setup step as by its loop, holds
\* no live microphone track and no connected graph when its error reaches
\* the caller
SetupFailureReleasesMic ==
  gen = "done" => (mic # "live" /\ graph # "connected" /\ ctx # "open")

\* ------------------------------------------------------------- demo upload
\* C38: the demo records the S3 key and reports the upload as done only if
\* the PUT of the encrypted blob was answered with a status from 200 to 299;
\* a PUT answered otherwise is reported as a failed upload and leaves blobKey
\* as it was
UploadedOnlyOnPutOk ==
  stopPc = "finished" =>
    /\ (status = "Uploaded" \/ appBlobKey # NoBlobKey) =>
         (putResponse >= 200 /\ putResponse <= 299)
    /\ (putResponse # 0 /\ ~(putResponse >= 200 /\ putResponse <= 299)) =>
         (status = "UploadFailed" /\ appBlobKey = NoBlobKey)

\* ---------------------------------------------------------- empty plaintext
\* C39: on an answer of the broker downloadAndDecrypt resolves exactly when
\* the status is from 200 to 299 and the body has a member plaintext, the empty
\* one included, and it resolves with the decoded plaintext
DecryptResolvesIffPlaintextField ==
  (Settled("downloadAndDecrypt") /\ Answered) =>
    /\ call.state = "resolved" <=>
         (Ok(call.response) /\ call.response.body.json
            /\ call.response.body.hasPlaintext)
    /\ call.state = "resolved" =>
         call.value = Utf8Decode(Base64Decode(call.response.body.plaintext).bytes)

\* ---------------------------------------------------------- frame accounting
\* the frame the producer resolved the pending pull with, until the generator
\* resumes and yields it
InHand == IF ready = NoFrame \/ ready = Undefined THEN <<>> ELSE <<ready>>

\* C40: every frame yielded was classified as speech and none is yielded
\* twice: between any two steps of producer and consumer the frames yielded
\* and the frames queued (with the frame a resolved pull is about to yield
\* between them) are, in order, exactly the speech frames produced so far
YieldedPlusQueuedIsProduced ==
  /\ yielded \o InHand \o frameQueue = produced
  /\ InHand # <<>> => gen = "frameReady"
  /\ \A i, j \in 1..Len(produced) : i < j => produced[i] < produced[j]

\* one frame was yielded, the next was taken from the queue for a pull, and a
\* third is still queued
YieldedHandedQueued ==
  /\ Len(yielded) >= 1 /\ InHand # <<>> /\ Len(frameQueue) >= 1
  /\ Len(produced) = Len(yielded) + 1 + Len(frameQueue)

====
